---------------------------- MODULE Spec2Model ----------------------------
(***************************************************************************)
(* A model of the valuation engine of src/src/ValuationCalculator.js.     *)
(*                                                                         *)
(* Numbers.  JavaScript numbers are modelled as exact extended rationals: *)
(* a record [n, d] in lowest terms with d >= 0, where d = 0 holds the     *)
(* IEEE special values: 1/0 is Infinity, -1/0 is -Infinity and 0/0 is NaN.*)
(* Arithmetic and comparisons follow IEEE-754 on these values, except     *)
(* that rounding and the sign of zero are not modelled.                   *)
(*                                                                         *)
(* Units.  Monetary amounts of a record are in 10^9 dollars and share     *)
(* counts in 10^9 shares, so that per-share figures are in dollars.       *)
(***************************************************************************)
EXTENDS Integers, Sequences, FiniteSets, TLC

VARIABLES
    pc,              \* position of the call being modelled
    data,            \* this.data: the record given to the constructor
    normalizedData,  \* this.normalizedData
    args,            \* the arguments of the call, beyond this.data
    ret              \* what the call returned

vars == <<pc, data, normalizedData, args, ret>>

---------------------------------------------------------------------------
(* Extended rational arithmetic                                            *)

Sign(x) == IF x > 0 THEN 1 ELSE IF x < 0 THEN -1 ELSE 0

AbsInt(x) == IF x < 0 THEN -x ELSE x

RECURSIVE GCD(_, _)
GCD(a, b) == IF b = 0 THEN a ELSE GCD(b, a % b)

\* n/d in lowest terms; d = 0 gives Infinity, -Infinity or NaN by the sign of n
Q(n, d) ==
    IF d = 0 THEN [n |-> Sign(n), d |-> 0]
    ELSE LET g == GCD(AbsInt(n), AbsInt(d))
         IN  [n |-> Sign(d) * (n \div g), d |-> AbsInt(d) \div g]

NaN == [n |-> 0, d |-> 0]
Infinity == [n |-> 1, d |-> 0]
Zero == [n |-> 0, d |-> 1]
One == [n |-> 1, d |-> 1]

IsNaN(a) == a.d = 0 /\ a.n = 0
IsFinite(a) == a.d # 0

Neg(a) == [n |-> -a.n, d |-> a.d]

Add(a, b) ==
    IF IsNaN(a) \/ IsNaN(b) THEN NaN
    ELSE IF a.d = 0 /\ b.d = 0 THEN (IF a.n = b.n THEN a ELSE NaN)
    ELSE IF a.d = 0 THEN a
    ELSE IF b.d = 0 THEN b
    ELSE LET g == GCD(a.d, b.d)
         IN  Q(a.n * (b.d \div g) + b.n * (a.d \div g), (a.d \div g) * b.d)

Sub(a, b) == Add(a, Neg(b))

Mul(a, b) ==
    IF a.d = 0 \/ b.d = 0 THEN Q(a.n * b.n, 0)
    ELSE LET g1 == GCD(AbsInt(a.n), b.d)
             g2 == GCD(AbsInt(b.n), a.d)
         IN  Q((a.n \div g1) * (b.n \div g2), (a.d \div g2) * (b.d \div g1))

\* 1/b; 1/0 is Infinity (the sign of zero is not modelled)
Inv(b) ==
    IF b.d = 0 THEN (IF b.n = 0 THEN NaN ELSE Zero)
    ELSE IF b.n = 0 THEN Infinity
    ELSE [n |-> Sign(b.n) * b.d, d |-> AbsInt(b.n)]

Div(a, b) == Mul(a, Inv(b))

\* a < b, a <= b, a > b as JavaScript compares numbers: false when either is NaN
Lt(a, b) == ~IsNaN(a) /\ ~IsNaN(b) /\ a # b /\ Sub(a, b).n < 0
Gt(a, b) == Lt(b, a)
Le(a, b) == ~IsNaN(a) /\ ~IsNaN(b) /\ (a = b \/ Lt(a, b))

MathAbs(a) == [n |-> AbsInt(a.n), d |-> a.d]

MathMin(a, b) == IF IsNaN(a) \/ IsNaN(b) THEN NaN ELSE IF Lt(b, a) THEN b ELSE a

MathMax(a, b) == IF IsNaN(a) \/ IsNaN(b) THEN NaN ELSE IF Gt(b, a) THEN b ELSE a

\* Math.pow(a, k) for an integer k >= 0
RECURSIVE MathPow(_, _)
MathPow(a, k) == IF k = 0 THEN One ELSE Mul(a, MathPow(a, k - 1))

\* an integer, and a percentage or a count of hundredths, as numbers
Num(i) == [n |-> i, d |-> 1]
Frac(i, j) == Q(i, j)


---------------------------------------------------------------------------
(* calculateDynamicWeights (ValuationCalculator.js 360-454)                *)

\* String.prototype.includes, on a text held as its sequence of words: pat
\* occurs in text as a run of consecutive words
Includes(text, pat) ==
    \E i \in 1..(Len(text) - Len(pat) + 1) : SubSeq(text, i, i + Len(pat) - 1) = pat

\* the condition of lines 379 and 441
IsAssetHeavy(industry) ==
    \/ Includes(industry, <<"Heavy", "Construction">>)
    \/ Includes(industry, <<"Farm">>)
    \/ Includes(industry, <<"Machinery">>)

Methods ==
    {"fcfe", "fcff", "ddm", "peRelative", "evEbitda", "bookValue", "capitalizedEarnings"}

\* lines 368-376
BaseWeights ==
    [fcfe |-> Frac(25, 100), fcff |-> Frac(25, 100), ddm |-> Frac(15, 100),
     peRelative |-> Frac(15, 100), evEbitda |-> Frac(10, 100),
     bookValue |-> Frac(5, 100), capitalizedEarnings |-> Frac(5, 100)]

\* lines 379-388
IndustryAdjust(w, industry) ==
    IF IsAssetHeavy(industry)
    THEN [fcfe |-> Frac(20, 100), fcff |-> Frac(20, 100), ddm |-> Frac(10, 100),
          peRelative |-> Frac(20, 100), evEbitda |-> Frac(15, 100),
          bookValue |-> Frac(10, 100), capitalizedEarnings |-> Frac(5, 100)]
    ELSE w

\* 100000000000 dollars (line 391), in 10^9 dollars
LargeCapThreshold == 100

\* lines 391-397
SizeAdjust(w, marketCap) ==
    IF Gt(marketCap, Num(LargeCapThreshold))
    THEN [w EXCEPT !.capitalizedEarnings = Add(@, Frac(5, 100)),
                   !.ddm = Add(@, Frac(5, 100)),
                   !.fcfe = Sub(@, Frac(5, 100)),
                   !.fcff = Sub(@, Frac(5, 100))]
    ELSE w

\* lines 400-404
DebtAdjust(w, debtToEquity) ==
    IF Gt(debtToEquity, Num(2))
    THEN [w EXCEPT !.fcff = Add(@, Frac(10, 100)), !.fcfe = Sub(@, Frac(10, 100))]
    ELSE w

\* lines 407-413
BetaAdjust(w, beta) ==
    IF Gt(beta, Frac(13, 10))
    THEN [w EXCEPT !.fcfe = Sub(@, Frac(5, 100)),
                   !.fcff = Sub(@, Frac(5, 100)),
                   !.peRelative = Add(@, Frac(5, 100)),
                   !.evEbitda = Add(@, Frac(5, 100))]
    ELSE w

\* line 416: this.data.dividendInfo?.currentDividendYield || 0
DividendYieldOf(d) ==
    IF ~d.dividendInfo.defined THEN Zero
    ELSE IF IsNaN(d.dividendInfo.currentDividendYield) THEN Zero
    ELSE d.dividendInfo.currentDividendYield

\* the dividend adjustment taking its 0.05 from the FCFE weight at 0.025 only
DividendAdjust_FcfeOnly(w, dividendYield) ==
    IF Gt(dividendYield, Frac(3, 100))
    THEN [w EXCEPT !.ddm = Add(@, Frac(5, 100)),
                   !.fcfe = Sub(@, Frac(25, 1000))]
    ELSE w

\* lines 417-421
DividendAdjust(w, dividendYield) ==
    IF Gt(dividendYield, Frac(3, 100))
    THEN [w EXCEPT !.ddm = Add(@, Frac(5, 100)),
                   !.fcfe = Sub(@, Frac(25, 1000)),
                   !.fcff = Sub(@, Frac(25, 1000))]
    ELSE w

\* the weights before the quality checks: lines 368-421
AdjustedWeights(d) ==
    DividendAdjust(
        BetaAdjust(
            DebtAdjust(
                SizeAdjust(
                    IndustryAdjust(BaseWeights, d.industry.text),
                    d.marketData.marketCap),
                d.keyRatios.leverageRatios.debtToEquity),
            d.marketData.beta),
        DividendYieldOf(d))

\* Math.abs(r.upside) > 100, and > 150
IsHigh(r) == Gt(MathAbs(r.upside), Num(100))
IsExtreme(r) == Gt(MathAbs(r.upside), Num(150))

Half(x) == Mul(x, Frac(1, 2))

\* lines 427-431
QualityHalve(w, fcfeResult, fcffResult, ddmResult, relativeResults) ==
    [w EXCEPT !.fcfe = IF IsHigh(fcfeResult) THEN Half(@) ELSE @,
              !.fcff = IF IsHigh(fcffResult) THEN Half(@) ELSE @,
              !.ddm = IF IsHigh(ddmResult) THEN Half(@) ELSE @,
              !.peRelative = IF IsHigh(relativeResults.peValuation) THEN Half(@) ELSE @,
              !.evEbitda = IF IsHigh(relativeResults.evEbitdaValuation) THEN Half(@) ELSE @]

\* QualityFilter leaving the FCFE weight as it is
QualityFilter_FcfeKept(w, fcfeResult, fcffResult, ddmResult, assetResults) ==
    [w EXCEPT !.fcff = IF Le(fcffResult.valuePerShare, Zero) \/ IsExtreme(fcffResult)
                       THEN Zero ELSE @,
              !.ddm = IF Le(ddmResult.valuePerShare, Zero) \/ IsExtreme(ddmResult)
                      THEN Zero ELSE @,
              !.bookValue = IF \/ Le(assetResults.bookValue.valuePerShare, Zero)
                               \/ Le(assetResults.liquidationValue.valuePerShare, Zero)
                            THEN Zero ELSE @]

\* lines 434-438
QualityFilter(w, fcfeResult, fcffResult, ddmResult, assetResults) ==
    [w EXCEPT !.fcfe = IF \/ Le(fcfeResult.valuePerShare, Zero)
                          \/ IsExtreme(fcfeResult)
                          \/ fcfeResult.notApplicable
                       THEN Zero ELSE @,
              !.fcff = IF Le(fcffResult.valuePerShare, Zero) \/ IsExtreme(fcffResult)
                       THEN Zero ELSE @,
              !.ddm = IF Le(ddmResult.valuePerShare, Zero) \/ IsExtreme(ddmResult)
                      THEN Zero ELSE @,
              !.bookValue = IF \/ Le(assetResults.bookValue.valuePerShare, Zero)
                               \/ Le(assetResults.liquidationValue.valuePerShare, Zero)
                            THEN Zero ELSE @]

\* the weights without the floor of lines 441-445
AssetFloor_None(w, industry, assetResults) == w

\* lines 441-445
AssetFloor(w, industry, assetResults) ==
    IF /\ IsAssetHeavy(industry)
       /\ w.bookValue = Zero
       /\ Gt(assetResults.tangibleBookValue.valuePerShare, Zero)
    THEN [w EXCEPT !.bookValue = Frac(5, 100)]
    ELSE w

\* Object.values(weights).reduce((sum, weight) => sum + weight, 0), line 448
TotalWeight(w) ==
    Add(Add(Add(Add(Add(Add(Add(Zero, w.fcfe), w.fcff), w.ddm), w.peRelative),
                w.evEbitda), w.bookValue), w.capitalizedEarnings)

\* calculateDynamicWeights without its last step: the weights are returned as
\* the quality checks left them
Normalize_Skipped(w) == [k \in Methods |-> w[k]]

\* lines 448-451
Normalize(w) ==
    LET totalWeight == TotalWeight(w)
    IN  [k \in Methods |-> Div(w[k], totalWeight)]

\* the weights before normalisation: lines 368-445
RawWeights(d, fcfeResult, fcffResult, ddmResult, relativeResults, assetResults) ==
    AssetFloor(
        QualityFilter(
            QualityHalve(AdjustedWeights(d), fcfeResult, fcffResult, ddmResult,
                         relativeResults),
            fcfeResult, fcffResult, ddmResult, assetResults),
        d.industry.text, assetResults)

\* industry.includes(...) at line 379 throws a TypeError when data.industry is
\* undefined
WeightsThrow(d) == ~d.industry.defined

calculateDynamicWeights(d, fcfeResult, fcffResult, ddmResult, relativeResults, assetResults, earningsResults) ==
    Normalize(RawWeights(d, fcfeResult, fcffResult, ddmResult, relativeResults,
                         assetResults))

---------------------------------------------------------------------------
(* Financial primitives (ValuationCalculator.js 320-357)                   *)

\* Object.keys(financialHistory).sort(): the year labels in ascending order.
\* Years are held as numbers; for labels of one length the lexicographic
\* order of sort() is the numeric one.
RECURSIVE SortedYears(_)
SortedYears(S) ==
    IF S = {} THEN <<>>
    ELSE LET m == CHOOSE x \in S : \A y \in S : x <= y
         IN  <<m>> \o SortedYears(S \ {m})

Years(nd) == SortedYears(DOMAIN nd.financialHistory)

\* financialHistory[Object.keys(financialHistory).sort().pop()]
LatestData(nd) == nd.financialHistory[Years(nd)[Len(Years(nd))]]

\* calculateCostOfEquity with beta capped at 2
calculateCostOfEquity_Capped(d) ==
    Add(Add(d.riskFactors.riskFreeRate,
            Mul(MathMin(d.marketData.beta, Num(2)), d.riskFactors.marketRiskPremium)),
        d.riskFactors.specificRiskPremium)

\* lines 320-328
calculateCostOfEquity(d) ==
    Add(Add(d.riskFactors.riskFreeRate,
            Mul(d.marketData.beta, d.riskFactors.marketRiskPremium)),
        d.riskFactors.specificRiskPremium)

\* const costOfDebt = 0.04 (line 337), in hundredths
CostOfDebtPct == 4

\* the estimated interest rate 0.04 of line 148, in hundredths
InterestRatePct == 4

\* lines 330-345
calculateWACC(d, nd) ==
    LET equityValue == d.marketData.marketCap
        debtValue == LatestData(nd).totalDebt
        totalValue == Add(equityValue, debtValue)
        costOfEquity == calculateCostOfEquity(d)
        costOfDebt == Frac(CostOfDebtPct, 100)
        taxRate == d.assumptions.taxRate
    IN  Add(Mul(Div(equityValue, totalValue), costOfEquity),
            Mul(Mul(Div(debtValue, totalValue), costOfDebt), Sub(One, taxRate)))

\* the k-th power of an integer
RECURSIVE IntPow(_, _)
IntPow(b, k) == IF k = 0 THEN 1 ELSE b * IntPow(b, k - 1)

\* the least r at or above from whose k-th power reaches m
RECURSIVE IntRootFrom(_, _, _)
IntRootFrom(m, k, from) ==
    IF IntPow(from, k) >= m THEN from ELSE IntRootFrom(m, k, from + 1)

\* the k-th root of a non-negative integer that is a perfect k-th power
IntRoot(m, k) == CHOOSE r \in {IntRootFrom(m, k, 0)} : IntPow(r, k) = m

\* Math.pow(a, 1 / k) for an integer k >= 1.  A negative base with k >= 2 gives
\* NaN.  The model holds exact numbers only, so for k >= 2 it is evaluated on
\* perfect k-th powers alone.
MathRoot(a, k) ==
    IF k = 1 \/ IsNaN(a) THEN a
    ELSE IF a.n < 0 THEN NaN
    ELSE IF a.d = 0 THEN a
    ELSE [n |-> IntRoot(a.n, k), d |-> IntRoot(a.d, k)]

\* calculateCAGR returning the growth factor, without the - 1 of line 352
calculateCAGR_Factor(values) ==
    IF Len(values) < 2 THEN Zero
    ELSE LET beginValue == values[1]
             endValue == values[Len(values)]
             years == Len(values) - 1
         IN  MathRoot(Div(endValue, beginValue), years)

\* lines 347-353
\* calculateCAGR with the guard of line 348 taken as length < 1: over one value
\* years is 0 and Math.pow(x, Infinity) - 1 is NaN, x being 1 or NaN
calculateCAGR_EmptyOnly(values) ==
    IF Len(values) < 1 THEN Zero
    ELSE IF Len(values) = 1 THEN NaN
    ELSE LET beginValue == values[1]
             endValue == values[Len(values)]
             years == Len(values) - 1
         IN  Sub(MathRoot(Div(endValue, beginValue), years), One)

calculateCAGR(values) ==
    IF Len(values) < 2 THEN Zero
    ELSE LET beginValue == values[1]
             endValue == values[Len(values)]
             years == Len(values) - 1
         IN  Sub(MathRoot(Div(endValue, beginValue), years), One)

\* lines 355-357
calculateFairEV(ebitda, multiple) == Mul(ebitda, multiple)

\* the upside as a fraction, not a percentage
UpsideOf_Fraction(valuePerShare, currentPrice) ==
    Sub(Div(valuePerShare, currentPrice), One)

\* (valuePerShare / currentPrice - 1) * 100, as lines 131, 185, 213 and 257
\* write it
UpsideOf(valuePerShare, currentPrice) ==
    Mul(Sub(Div(valuePerShare, currentPrice), One), Num(100))

---------------------------------------------------------------------------
(* The valuation methods (ValuationCalculator.js 73-317)                   *)

\* the explicit period of calculateFCFE, lines 111-116: the state of the loop
\* after the years year..5, from currentFCF and intrinsicValue before them
RECURSIVE FcfeLoop(_, _, _, _, _)
FcfeLoop(year, currentFCF, intrinsicValue, initialGrowthRate, discountRate) ==
    IF year > 5 THEN [currentFCF |-> currentFCF, intrinsicValue |-> intrinsicValue]
    ELSE LET growthRate == Mul(initialGrowthRate, MathPow(Frac(85, 100), year - 1))
             nextFCF == Mul(currentFCF, Add(One, growthRate))
             presentValue == Div(nextFCF, MathPow(Add(One, discountRate), year))
         IN  FcfeLoop(year + 1, nextFCF, Add(intrinsicValue, presentValue),
                      initialGrowthRate, discountRate)

\* a history as the sequence of one field, oldest year first
History(nd, field) == [i \in 1..Len(Years(nd)) |-> nd.financialHistory[Years(nd)[i]][field]]

\* lines 74-139
calculateFCFE(d, nd) ==
    LET latestData == LatestData(nd)
    IN  IF Le(latestData.freeCashFlow, Zero)
        THEN [method |-> "FCFE",
              totalValue |-> Zero,
              valuePerShare |-> Zero,
              currentPrice |-> d.marketData.currentPrice,
              upside |-> Zero,
              notApplicable |-> TRUE,
              reason |-> "FCFE model not applicable due to negative free cash flow",
              assumptions |-> [initialGrowth |-> Zero,
                               terminalGrowth |-> d.assumptions.terminalGrowthRate,
                               discountRate |-> calculateCostOfEquity(d)]]
        ELSE LET avgGrowthRate == calculateCAGR(History(nd, "freeCashFlow"))
                 initialGrowthRate ==
                     MathMin(MathMin(avgGrowthRate, d.growthMetrics.fcfGrowth5Y),
                             Frac(15, 100))
                 terminalGrowthRate == d.assumptions.terminalGrowthRate
                 discountRate == calculateCostOfEquity(d)
                 loop == FcfeLoop(1, latestData.freeCashFlow, Zero,
                                  initialGrowthRate, discountRate)
                 terminalFCF == Mul(loop.currentFCF, Add(One, terminalGrowthRate))
                 terminalValue == Div(terminalFCF, Sub(discountRate, terminalGrowthRate))
                 presentTerminalValue ==
                     Div(terminalValue, MathPow(Add(One, discountRate), 5))
                 intrinsicValue == Add(loop.intrinsicValue, presentTerminalValue)
                 valuePerShare == Div(intrinsicValue, d.marketData.sharesOutstanding)
             IN  [method |-> "FCFE",
                  totalValue |-> intrinsicValue,
                  valuePerShare |-> valuePerShare,
                  currentPrice |-> d.marketData.currentPrice,
                  upside |-> UpsideOf(valuePerShare, d.marketData.currentPrice),
                  notApplicable |-> FALSE,
                  reason |-> "",
                  assumptions |-> [initialGrowth |-> initialGrowthRate,
                                   terminalGrowth |-> terminalGrowthRate,
                                   discountRate |-> discountRate]]

\* the explicit period of calculateFCFF, lines 160-166
RECURSIVE FcffLoop(_, _, _, _, _)
FcffLoop(year, currentFCFF, firmValue, initialGrowthRate, wacc) ==
    IF year > 10 THEN [currentFCFF |-> currentFCFF, firmValue |-> firmValue]
    ELSE LET growthRate ==
                 IF year <= 5 THEN initialGrowthRate
                 ELSE Mul(initialGrowthRate,
                          Sub(One, Mul(Frac(year - 5, 5), Frac(7, 10))))
             nextFCFF == Mul(currentFCFF, Add(One, growthRate))
             presentValue == Div(nextFCFF, MathPow(Add(One, wacc), year))
         IN  FcffLoop(year + 1, nextFCFF, Add(firmValue, presentValue),
                      initialGrowthRate, wacc)

\* lines 142-193
calculateFCFF(d, nd) ==
    LET latestData == LatestData(nd)
        interestExpense == Mul(latestData.totalDebt, Frac(InterestRatePct, 100))
        taxShield == Mul(interestExpense, d.assumptions.taxRate)
        fcff == Add(Sub(latestData.operatingCashFlow, latestData.capex), taxShield)
        wacc == calculateWACC(d, nd)
        terminalGrowthRate == d.assumptions.terminalGrowthRate
        initialGrowthRate == MathMin(d.growthMetrics.revenueGrowth5Y, Frac(12, 100))
        loop == FcffLoop(1, fcff, Zero, initialGrowthRate, wacc)
        terminalFCFF == Mul(loop.currentFCFF, Add(One, terminalGrowthRate))
        terminalValue == Div(terminalFCFF, Sub(wacc, terminalGrowthRate))
        presentTerminalValue == Div(terminalValue, MathPow(Add(One, wacc), 10))
        firmValue == Add(loop.firmValue, presentTerminalValue)
        netDebt == Sub(latestData.totalDebt, latestData.cashAndEquivalents)
        equityValue == Sub(firmValue, netDebt)
        valuePerShare == Div(equityValue, d.marketData.sharesOutstanding)
    IN  [method |-> "FCFF",
         firmValue |-> firmValue,
         equityValue |-> equityValue,
         valuePerShare |-> valuePerShare,
         currentPrice |-> d.marketData.currentPrice,
         upside |-> UpsideOf(valuePerShare, d.marketData.currentPrice),
         notApplicable |-> FALSE,
         reason |-> "",
         assumptions |-> [wacc |-> wacc,
                          initialGrowth |-> initialGrowthRate,
                          terminalGrowth |-> terminalGrowthRate,
                          netDebt |-> netDebt]]

\* lines 196-221
calculateDDM(d, nd) ==
    LET latestData == LatestData(nd)
        currentDividend == latestData.dividend
        dividendGrowthRate == d.assumptions.dividendGrowthRate
        requiredReturn == calculateCostOfEquity(d)
        nextYearDividend == Mul(currentDividend, Add(One, dividendGrowthRate))
        valuePerShare == Div(nextYearDividend, Sub(requiredReturn, dividendGrowthRate))
    IN  [method |-> "DDM (Gordon Growth)",
         valuePerShare |-> valuePerShare,
         currentPrice |-> d.marketData.currentPrice,
         upside |-> UpsideOf(valuePerShare, d.marketData.currentPrice),
         notApplicable |-> FALSE,
         reason |-> "",
         assumptions |-> [currentDividend |-> currentDividend,
                          dividendGrowthRate |-> dividendGrowthRate,
                          requiredReturn |-> requiredReturn,
                          nextYearDividend |-> nextYearDividend]]

\* the fair EV/EBITDA multiple of lines 248-253
FairMultiple == 12

\* lines 224-260
calculateRelativeValuation(d, nd) ==
    LET currentRatios == d.keyRatios.valuationRatios
        benchmarks == d.industryBenchmarks
        latestData == LatestData(nd)
        price == d.marketData.currentPrice
        ebitdaEV == calculateFairEV(Mul(latestData.operatingIncome, Frac(115, 100)),
                                    Num(FairMultiple))
        evNetDebt == Sub(latestData.totalDebt, latestData.cashAndEquivalents)
        evValuePerShare == Div(Sub(ebitdaEV, evNetDebt), d.marketData.sharesOutstanding)
    IN  [peValuation |->
             [method |-> "P/E Relative Valuation",
              fairPE |-> benchmarks.averagePE,
              currentPE |-> currentRatios.peRatio,
              valuePerShare |-> Mul(latestData.eps, benchmarks.averagePE),
              upside |-> Mul(Sub(Div(Mul(latestData.eps, benchmarks.averagePE), price),
                                 One), Num(100))],
         pbValuation |->
             [method |-> "P/B Relative Valuation",
              fairPB |-> benchmarks.averagePB,
              currentPB |-> currentRatios.pbRatio,
              valuePerShare |-> Mul(latestData.bookValuePerShare, benchmarks.averagePB),
              upside |-> Mul(Sub(Div(Mul(latestData.bookValuePerShare,
                                         benchmarks.averagePB), price),
                                 One), Num(100))],
         evEbitdaValuation |->
             [method |-> "EV/EBITDA Relative Valuation",
              fairMultiple |-> Num(FairMultiple),
              ebitda |-> Add(latestData.operatingIncome,
                             Mul(latestData.operatingIncome, Frac(15, 100))),
              enterpriseValue |-> ebitdaEV,
              equityValue |-> Sub(ebitdaEV, evNetDebt),
              valuePerShare |-> evValuePerShare,
              upside |-> UpsideOf(evValuePerShare, price)]]

\* lines 263-289
calculateAssetBasedValuation(d, nd) ==
    LET latestData == LatestData(nd)
        price == d.marketData.currentPrice
        shares == d.marketData.sharesOutstanding
        tangibleBV == Sub(latestData.shareholdersEquity,
                          Mul(latestData.totalAssets, Frac(7, 100)))
        liquidation == Sub(Mul(latestData.totalAssets, Frac(7, 10)),
                           Sub(latestData.totalAssets, latestData.shareholdersEquity))
    IN  [bookValue |->
             [method |-> "Book Value",
              valuePerShare |-> latestData.bookValuePerShare,
              upside |-> Mul(Sub(Div(latestData.bookValuePerShare, price), One),
                             Num(100))],
         tangibleBookValue |->
             [method |-> "Tangible Book Value",
              tangibleBV |-> tangibleBV,
              valuePerShare |-> Div(tangibleBV, shares),
              upside |-> Mul(Sub(Div(Div(tangibleBV, shares), price), One), Num(100))],
         liquidationValue |->
             [method |-> "Liquidation Value (Conservative)",
              recoveryRate |-> Frac(7, 10),
              liquidationValue |-> liquidation,
              valuePerShare |-> Div(liquidation, shares),
              upside |-> Mul(Sub(Div(Div(liquidation, shares), price), One), Num(100))]]

\* earningsHistory.reduce((a, b) => a + b, 0), line 295
RECURSIVE SumSeq(_)
SumSeq(s) == IF s = <<>> THEN Zero ELSE Add(SumSeq(SubSeq(s, 1, Len(s) - 1)), s[Len(s)])

\* lines 292-317
calculateEarningsBasedValuation(d, nd) ==
    LET earningsHistory == History(nd, "netIncome")
        avgEarnings == Div(SumSeq(earningsHistory), Num(Len(earningsHistory)))
        costOfEquity == calculateCostOfEquity(d)
        capitalizedEarnings == Div(avgEarnings, costOfEquity)
        price == d.marketData.currentPrice
        shares == d.marketData.sharesOutstanding
    IN  [capitalizedEarnings |->
             [method |-> "Capitalized Earnings",
              avgEarnings |-> avgEarnings,
              capitalizationRate |-> costOfEquity,
              totalValue |-> capitalizedEarnings,
              valuePerShare |-> Div(capitalizedEarnings, shares),
              upside |-> Mul(Sub(Div(Div(capitalizedEarnings, shares), price), One),
                             Num(100))],
         earningsPowerValue |->
             [method |-> "Earnings Power Value (No Growth)",
              normalizedEarnings |-> avgEarnings,
              valuePerShare |-> Div(Div(avgEarnings, shares), costOfEquity),
              upside |-> Mul(Sub(Div(Div(Div(avgEarnings, shares), costOfEquity), price),
                                 One), Num(100))]]

---------------------------------------------------------------------------
(* convertToUSD (ValuationCalculator.js 14-71)                             *)
(* A field that is absent from a record (undefined) is held as NaN: both   *)
(* are falsy, both make every comparison false and every sum NaN.          *)

\* the truthiness of a number: neither 0 nor NaN
Truthy(a) == ~IsNaN(a) /\ a # Zero

\* lines 31-36
MonetaryFields ==
    {"revenue", "grossProfit", "operatingIncome", "netIncome", "freeCashFlow",
     "operatingCashFlow", "capex", "totalAssets", "totalDebt", "cashAndEquivalents",
     "shareholdersEquity", "workingCapital", "totalEquity", "retainedEarnings"}

\* lines 45-53
PerShareFields == {"bookValuePerShare", "eps", "dividend"}

\* lines 28-53, for one year
ConvertYear(yearData, conversionRate) ==
    [f \in DOMAIN yearData |->
        IF f \in MonetaryFields THEN Mul(yearData[f], conversionRate)
        ELSE IF f \in PerShareFields /\ Truthy(yearData[f])
             THEN Mul(yearData[f], conversionRate)
        ELSE yearData[f]]

\* data.exchangeRate.dkkToUsd, line 24: undefined when exchangeRate is a number
\* or a table without that key
DkkToUsd(exchangeRate) ==
    IF exchangeRate.kind = "table" THEN exchangeRate.dkkToUsd ELSE NaN

\* data.exchangeRate as a condition, line 23
HasExchangeRate(exchangeRate) ==
    \/ exchangeRate.kind = "table"
    \/ exchangeRate.kind = "number" /\ Truthy(exchangeRate.rate)

\* the record convertToUSD was given, as the call leaves it, had lines 27-68
\* written to the record itself
InputAfterConvert_NoCopy(d, converted) == converted

\* the record convertToUSD was given, as the call leaves it: line 21 takes a
\* copy, and every write of lines 27-68 goes to the copy (converted)
InputAfterConvert(d, converted) == d

\* lines 14-71; currency "" stands for a record without a currency
convertToUSD(d) ==
    IF d.currency = "" \/ d.currency = "USD" THEN d
    ELSE IF d.currency = "DKK" /\ HasExchangeRate(d.exchangeRate)
    THEN LET conversionRate == DkkToUsd(d.exchangeRate)
         IN  [d EXCEPT
                 !.financialHistory =
                     [y \in DOMAIN @ |-> ConvertYear(@[y], conversionRate)],
                 !.dividendInfo =
                     IF @.defined /\ Truthy(@.currentAnnualDividend)
                     THEN [@ EXCEPT !.currentAnnualDividend = Mul(@, conversionRate)]
                     ELSE @,
                 !.currency = "USD",
                 !.convertedFromCurrency = d.currency,
                 !.conversionRate = conversionRate]
    ELSE d

---------------------------------------------------------------------------
(* The aggregator (ValuationCalculator.js 613-726)                         *)

\* getRecommendation with >= in its first rule
getRecommendation_AtLeast(upside, marginOfSafety) ==
    IF Le(Num(20), upside) /\ Le(Num(15), marginOfSafety) THEN "Strong Buy"
    ELSE IF Gt(upside, Num(10)) /\ Gt(marginOfSafety, Num(10)) THEN "Buy"
    ELSE IF Gt(upside, Zero) /\ Gt(marginOfSafety, Num(5)) THEN "Hold"
    ELSE IF Gt(upside, Num(-10)) THEN "Hold"
    ELSE "Sell"

\* getRecommendation with its fourth rule holding down to 0 only
getRecommendation_NoBand(upside, marginOfSafety) ==
    IF Gt(upside, Num(20)) /\ Gt(marginOfSafety, Num(15)) THEN "Strong Buy"
    ELSE IF Gt(upside, Num(10)) /\ Gt(marginOfSafety, Num(10)) THEN "Buy"
    ELSE IF Gt(upside, Zero) /\ Gt(marginOfSafety, Num(5)) THEN "Hold"
    ELSE IF Le(Zero, upside) THEN "Hold"
    ELSE "Sell"

\* getRecommendation asking Strong Buy for a margin of safety above 17
getRecommendation_MarginSeventeen(upside, marginOfSafety) ==
    IF Gt(upside, Num(20)) /\ Gt(marginOfSafety, Num(17)) THEN "Strong Buy"
    ELSE IF Gt(upside, Num(10)) /\ Gt(marginOfSafety, Num(10)) THEN "Buy"
    ELSE IF Gt(upside, Zero) /\ Gt(marginOfSafety, Num(5)) THEN "Hold"
    ELSE IF Gt(upside, Num(-10)) THEN "Hold"
    ELSE "Sell"

\* lines 720-726
getRecommendation(upside, marginOfSafety) ==
    IF Gt(upside, Num(20)) /\ Gt(marginOfSafety, Num(15)) THEN "Strong Buy"
    ELSE IF Gt(upside, Num(10)) /\ Gt(marginOfSafety, Num(10)) THEN "Buy"
    ELSE IF Gt(upside, Zero) /\ Gt(marginOfSafety, Num(5)) THEN "Hold"
    ELSE IF Gt(upside, Num(-10)) THEN "Hold"
    ELSE "Sell"

\* SqrtRatioLt with <= for <
SqrtRatioLt_AtMost(variance, mean, c) ==
    IF IsNaN(variance) \/ IsNaN(mean) \/ variance.n < 0 THEN FALSE
    ELSE IF variance.d = 0 THEN mean.d # 0 /\ mean.n < 0
    ELSE IF mean.d = 0 THEN TRUE
    ELSE IF mean.n = 0 THEN FALSE
    ELSE IF mean.n < 0 THEN TRUE
    ELSE Le(variance, Mul(Mul(c, c), Mul(mean, mean)))

\* Math.sqrt(variance) / mean < c, for a number c > 0, without the root: a
\* NaN on either side compares false; the root of a variance v >= 0 over a
\* mean m > 0 is below c exactly when v < c * c * m * m
SqrtRatioLt(variance, mean, c) ==
    IF IsNaN(variance) \/ IsNaN(mean) \/ variance.n < 0 THEN FALSE
    ELSE IF variance.d = 0 THEN mean.d # 0 /\ mean.n < 0
    ELSE IF mean.d = 0 THEN TRUE
    ELSE IF mean.n = 0 THEN FALSE
    ELSE IF mean.n < 0 THEN TRUE
    ELSE Lt(variance, Mul(Mul(c, c), Mul(mean, mean)))

Square(a) == Mul(a, a)

\* lines 669-680; valuations is the sequence of line 625
calculateConfidence(valuations) ==
    LET values == [i \in 1..Len(valuations) |-> valuations[i].value]
        mean == Div(SumSeq(values), Num(Len(values)))
        variance ==
            Div(SumSeq([i \in 1..Len(values) |-> Square(Sub(values[i], mean))]),
                Num(Len(values)))
    IN  IF SqrtRatioLt(variance, mean, Frac(2, 10)) THEN "High"
        ELSE IF SqrtRatioLt(variance, mean, Frac(4, 10)) THEN "Medium"
        ELSE "Low"

\* assessFinancialRisk with High from a score above 4
assessFinancialRisk_AboveFour(ratios) ==
    LET de == IF Gt(ratios.leverageRatios.debtToEquity, Num(3)) THEN 2
              ELSE IF Gt(ratios.leverageRatios.debtToEquity, Num(2)) THEN 1 ELSE 0
        cr == IF Lt(ratios.liquidityRatios.currentRatio, One) THEN 2
              ELSE IF Lt(ratios.liquidityRatios.currentRatio, Frac(12, 10)) THEN 1 ELSE 0
        ic == IF Lt(ratios.leverageRatios.interestCoverage, Num(5)) THEN 2
              ELSE IF Lt(ratios.leverageRatios.interestCoverage, Num(10)) THEN 1 ELSE 0
        score == de + cr + ic
    IN  IF score > 4 THEN "High" ELSE IF score >= 2 THEN "Medium" ELSE "Low"

\* lines 704-718
assessFinancialRisk(ratios) ==
    LET de == IF Gt(ratios.leverageRatios.debtToEquity, Num(3)) THEN 2
              ELSE IF Gt(ratios.leverageRatios.debtToEquity, Num(2)) THEN 1 ELSE 0
        cr == IF Lt(ratios.liquidityRatios.currentRatio, One) THEN 2
              ELSE IF Lt(ratios.liquidityRatios.currentRatio, Frac(12, 10)) THEN 1 ELSE 0
        ic == IF Lt(ratios.leverageRatios.interestCoverage, Num(5)) THEN 2
              ELSE IF Lt(ratios.leverageRatios.interestCoverage, Num(10)) THEN 1 ELSE 0
        score == de + cr + ic
    IN  IF score >= 4 THEN "High" ELSE IF score >= 2 THEN "Medium" ELSE "Low"

\* calculateRiskMetrics with the valuation risk taken from the price over the
\* latest earnings per share
calculateRiskMetrics_PriceOverEps(d) ==
    LET ratios == d.keyRatios
        years == SortedYears(DOMAIN d.financialHistory)
        eps == d.financialHistory[years[Len(years)]].eps
    IN  [financial |->
             [debtToEquity |-> ratios.leverageRatios.debtToEquity,
              currentRatio |-> ratios.liquidityRatios.currentRatio,
              interestCoverage |-> ratios.leverageRatios.interestCoverage,
              riskLevel |-> assessFinancialRisk(ratios)],
         business |->
             [beta |-> d.marketData.beta,
              volatilityRisk |->
                  IF Gt(d.marketData.beta, Frac(15, 10)) THEN "High"
                  ELSE IF Gt(d.marketData.beta, One) THEN "Medium" ELSE "Low",
              industryRisk |-> "Medium"],
         valuation |->
             [peRatio |-> ratios.valuationRatios.peRatio,
              pbRatio |-> ratios.valuationRatios.pbRatio,
              valuationRisk |->
                  IF Gt(Div(d.marketData.currentPrice, eps), Num(25)) THEN "High"
                  ELSE "Medium"]]

\* lines 682-702
calculateRiskMetrics(d) ==
    LET ratios == d.keyRatios
    IN  [financial |->
             [debtToEquity |-> ratios.leverageRatios.debtToEquity,
              currentRatio |-> ratios.liquidityRatios.currentRatio,
              interestCoverage |-> ratios.leverageRatios.interestCoverage,
              riskLevel |-> assessFinancialRisk(ratios)],
         business |->
             [beta |-> d.marketData.beta,
              volatilityRisk |->
                  IF Gt(d.marketData.beta, Frac(15, 10)) THEN "High"
                  ELSE IF Gt(d.marketData.beta, One) THEN "Medium" ELSE "Low",
              industryRisk |-> "Medium"],
         valuation |->
             [peRatio |-> ratios.valuationRatios.peRatio,
              pbRatio |-> ratios.valuationRatios.pbRatio,
              valuationRisk |->
                  IF Gt(ratios.valuationRatios.peRatio, Num(25)) THEN "High"
                  ELSE "Medium"]]

\* the valuations of lines 625-633
Valuations(fcfeResult, fcffResult, ddmResult, relativeResults, assetResults, earningsResults, weights) ==
    << [method |-> fcfeResult.method, value |-> fcfeResult.valuePerShare,
        weight |-> weights.fcfe],
       [method |-> fcffResult.method, value |-> fcffResult.valuePerShare,
        weight |-> weights.fcff],
       [method |-> ddmResult.method, value |-> ddmResult.valuePerShare,
        weight |-> weights.ddm],
       [method |-> relativeResults.peValuation.method,
        value |-> relativeResults.peValuation.valuePerShare,
        weight |-> weights.peRelative],
       [method |-> relativeResults.evEbitdaValuation.method,
        value |-> relativeResults.evEbitdaValuation.valuePerShare,
        weight |-> weights.evEbitda],
       [method |-> assetResults.bookValue.method,
        value |-> assetResults.bookValue.valuePerShare,
        weight |-> weights.bookValue],
       [method |-> earningsResults.capitalizedEarnings.method,
        value |-> earningsResults.capitalizedEarnings.valuePerShare,
        weight |-> weights.capitalizedEarnings] >>

\* valuations.reduce((sum, val) => sum + (val.value * val.weight), 0), line 636
RECURSIVE WeightedSum(_)
WeightedSum(vs) ==
    IF vs = <<>> THEN Zero
    ELSE Add(WeightedSum(SubSeq(vs, 1, Len(vs) - 1)),
             Mul(vs[Len(vs)].value, vs[Len(vs)].weight))

\* lines 613-667, from line 621 on, given the six method results
Aggregate(d, fcfeResult, fcffResult, ddmResult, relativeResults, assetResults, earningsResults) ==
    LET weights == calculateDynamicWeights(d, fcfeResult, fcffResult, ddmResult,
                                           relativeResults, assetResults,
                                           earningsResults)
        valuations == Valuations(fcfeResult, fcffResult, ddmResult, relativeResults,
                                 assetResults, earningsResults, weights)
        weightedIntrinsicValue == WeightedSum(valuations)
        currentPrice == d.marketData.currentPrice
        upside == Mul(Sub(Div(weightedIntrinsicValue, currentPrice), One), Num(100))
        marginOfSafety ==
            MathMax(Zero,
                    Mul(Div(Sub(weightedIntrinsicValue, currentPrice),
                            weightedIntrinsicValue), Num(100)))
        recommendation == getRecommendation(upside, marginOfSafety)
    IN  [kind |-> "result",
         ticker |-> d.ticker,
         companyName |-> d.companyName,
         currentPrice |-> currentPrice,
         intrinsicValue |-> weightedIntrinsicValue,
         upside |-> upside,
         marginOfSafety |-> marginOfSafety,
         recommendation |-> recommendation,
         confidence |-> calculateConfidence(valuations),
         valuationBreakdown |->
             [fcfe |-> fcfeResult, fcff |-> fcffResult, ddm |-> ddmResult,
              relative |-> relativeResults, assetBased |-> assetResults,
              earningsBased |-> earningsResults],
         weightedValuations |-> valuations,
         riskMetrics |-> calculateRiskMetrics(d)]

\* no arguments, no return value yet
None == [kind |-> "none"]

\* a call that ended in an exception
TypeError == [kind |-> "TypeError"]

\* calculateDividendAnalysis (lines 457-522) reads
\* dividendInfo.dividendGrowthAnalysis.growthRate5Y and
\* dividendInfo.dividendMetrics.earningsCoverage once dividendInfo is there
DividendAnalysisThrows(d) == d.dividendInfo.defined /\ ~d.dividendInfo.complete

\* lines 613-667
calculateIntrinsicValue(d, nd) ==
    IF WeightsThrow(d) \/ DividendAnalysisThrows(d) THEN TypeError
    ELSE Aggregate(d, calculateFCFE(d, nd), calculateFCFF(d, nd), calculateDDM(d, nd),
                   calculateRelativeValuation(d, nd),
                   calculateAssetBasedValuation(d, nd),
                   calculateEarningsBasedValuation(d, nd))

---------------------------------------------------------------------------
(* Records                                                                 *)

Undefined == [defined |-> FALSE, text |-> <<>>]
Text(words) == [defined |-> TRUE, text |-> words]

\* dividendInfo: complete when it carries the dividendGrowthAnalysis and
\* dividendMetrics objects that calculateDividendAnalysis reads
NoDividendInfo ==
    [defined |-> FALSE, complete |-> FALSE, currentDividendYield |-> NaN,
     currentAnnualDividend |-> NaN]

DividendInfo(yield) ==
    [defined |-> TRUE, complete |-> TRUE, currentDividendYield |-> yield,
     currentAnnualDividend |-> Num(2)]

AssetHeavyText == Text(<<"Farm", "&", "Heavy", "Construction", "Machinery">>)

\* exchangeRate: absent, a number, or a table whose keys are among dkkToUsd
\* and eurToUsd (a key that is missing reads as undefined)
NoExchangeRate == [kind |-> "absent", rate |-> NaN, dkkToUsd |-> NaN, eurToUsd |-> NaN]

\* one year of financialHistory
YearRecord(fcf, dividend, healthy) ==
    [revenue |-> Num(10),
     operatingIncome |-> IF healthy THEN Frac(20, 69) ELSE Frac(-20, 69),
     netIncome |-> IF healthy THEN Num(4) ELSE Num(-1),
     freeCashFlow |-> fcf,
     operatingCashFlow |-> Add(fcf, One),
     capex |-> One,
     totalAssets |-> Num(6),
     totalDebt |-> Zero,
     cashAndEquivalents |-> One,
     shareholdersEquity |-> IF healthy THEN Num(3) ELSE Num(-1),
     bookValuePerShare |-> IF healthy THEN Num(3) ELSE Num(-1),
     eps |-> IF healthy THEN Num(4) ELSE Num(-1),
     dividend |-> dividend]

\* a record in US dollars with one year of history, shaped like the fixture
\* of the repository's test (unnamed/part_009 8-66) plus the fields of
\* data/nvo.json that the engine reads
BaseRecord ==
    [ticker |-> "TEST",
     companyName |-> "Test Company",
     industry |-> Text(<<"Drug", "Manufacturers">>),
     currency |-> "USD",
     exchangeRate |-> NoExchangeRate,
     convertedFromCurrency |-> "",
     conversionRate |-> NaN,
     marketData |-> [currentPrice |-> Num(4), marketCap |-> Num(4),
                     sharesOutstanding |-> One, beta |-> One],
     riskFactors |-> [riskFreeRate |-> Frac(1, 2), marketRiskPremium |-> Frac(1, 2),
                      specificRiskPremium |-> Zero],
     financialHistory |-> [y \in {2024} |-> YearRecord(Num(4), Num(2), TRUE)],
     keyRatios |-> [valuationRatios |-> [peRatio |-> Num(20), pbRatio |-> Num(2),
                                         evToEbitda |-> Num(15)],
                    leverageRatios |-> [debtToEquity |-> Frac(1, 2),
                                        interestCoverage |-> Num(15)],
                    liquidityRatios |-> [currentRatio |-> Frac(3, 2)]],
     assumptions |-> [terminalGrowthRate |-> Zero, taxRate |-> Frac(1, 4),
                      dividendGrowthRate |-> Zero],
     growthMetrics |-> [fcfGrowth5Y |-> Zero, revenueGrowth5Y |-> Zero],
     industryBenchmarks |-> [averagePE |-> One, averagePB |-> One],
     dividendInfo |-> NoDividendInfo]

---------------------------------------------------------------------------
(* The engine: a ValuationCalculator is constructed on a record and        *)
(* calculateIntrinsicValue is called on it.  The records keep every growth *)
(* rate of the explicit periods at 0 and the cost of equity and the WACC   *)
(* at 1, so that every discount factor is a power of 1/2; the decay of     *)
(* the growth rate in the loops is translated but runs on a rate of 0.     *)

\* the longest financialHistory, in years
MaxYears == 2

IncompleteDividendInfo ==
    [defined |-> TRUE, complete |-> FALSE, currentDividendYield |-> Frac(4, 100),
     currentAnnualDividend |-> Num(2)]

DkkRate == [kind |-> "table", rate |-> NaN, dkkToUsd |-> Frac(1, 2), eurToUsd |-> NaN]

\* a terminal growth rate above the discount rate of 1, at which the ten
\* discounted years and the discounted terminal value of calculateFCFF cancel
GrowthAboveDiscount == Frac(512, 511)

\* what a record is built from
RecordChoices ==
    [industry : {AssetHeavyText, Text(<<"Drug", "Manufacturers">>), Undefined},
     leveraged : BOOLEAN,
     dividendInfo : {NoDividendInfo, DividendInfo(Frac(4, 100)), IncompleteDividendInfo},
     freeCashFlow : {Num(-1), Zero, Num(4)},
     dividend : {NaN, Zero, Num(2)},
     dividendGrowthRate : {Zero, One, Num(2)},
     terminalGrowthRate : {Zero, One, GrowthAboveDiscount},
     healthy : BOOLEAN,
     years : 1..MaxYears,
     currency : {"USD", "DKK"}]

\* the record of a choice; the leveraged profile is a large company with a
\* high debt-to-equity ratio and a high beta at the same cost of equity
RecordOf(c) ==
    [BaseRecord EXCEPT
        !.industry = c.industry,
        !.currency = c.currency,
        !.exchangeRate = IF c.currency = "DKK" THEN DkkRate ELSE NoExchangeRate,
        !.marketData.marketCap = IF c.leveraged THEN Num(200) ELSE @,
        !.marketData.beta = IF c.leveraged THEN Num(2) ELSE @,
        !.riskFactors.riskFreeRate = IF c.leveraged THEN Zero ELSE @,
        !.keyRatios.leverageRatios.debtToEquity =
            IF c.leveraged THEN Frac(5, 2) ELSE @,
        !.financialHistory =
            [y \in (2025 - c.years)..2024 |->
                YearRecord(c.freeCashFlow, c.dividend, c.healthy)],
        !.assumptions.dividendGrowthRate = c.dividendGrowthRate,
        !.assumptions.terminalGrowthRate = c.terminalGrowthRate,
        !.dividendInfo = c.dividendInfo]

Records == {RecordOf(c) : c \in RecordChoices}

\* new ValuationCalculator(companyData), lines 5-11
Init ==
    /\ pc = "ready"
    /\ data \in Records
    /\ normalizedData = convertToUSD(data)
    /\ args = None
    /\ ret = None

\* calculator.calculateIntrinsicValue(): a result, or an exception
CalculateIntrinsicValue ==
    /\ pc = "ready"
    /\ pc' = "done"
    /\ ret' = calculateIntrinsicValue(data, normalizedData)
    /\ UNCHANGED <<data, normalizedData, args>>

Next == CalculateIntrinsicValue

Spec == Init /\ [][Next]_vars

---------------------------------------------------------------------------
(* calculateDynamicWeights on its own: every classification of a record    *)
(* against method results that differ from par in a bounded number of      *)
(* methods                                                                 *)

\* at most this many of the nine method results are away from par
MaxDeviating == 2

ResultKeys == {"fcfe", "fcff", "ddm", "pe", "ev", "book", "cap", "liq", "tang"}

\* a method result by its value per share against the price: "par" is twice
\* the price (upside exactly 100), "high" two and a half times (upside exactly
\* 150), "extreme" three times (upside 200), "zero" is 0 (upside -100), and
\* "na" is the not-applicable result of calculateFCFE (lines 81-95)
ResultOfChoice(c, price) ==
    IF c = "na"
    THEN [valuePerShare |-> Zero, upside |-> Zero, notApplicable |-> TRUE]
    ELSE LET v == CASE c = "zero" -> Zero
                    [] c = "par" -> Mul(Num(2), price)
                    [] c = "high" -> Mul(Frac(5, 2), price)
                    [] c = "extreme" -> Mul(Num(3), price)
         IN  [valuePerShare |-> v, upside |-> UpsideOf(v, price),
              notApplicable |-> FALSE]

\* the ways a method result is away from par: the upside is read for the
\* five methods of lines 427-431, and for book value and capitalized earnings
\* by the documented quality adjustments; of tangible book value and
\* liquidation value only the sign is read
Deviations(k) ==
    CASE k = "fcfe" -> {"zero", "high", "extreme", "na"}
      [] k \in {"fcff", "ddm", "pe", "ev"} -> {"zero", "high", "extreme"}
      [] k \in {"book", "cap"} -> {"zero", "extreme"}
      [] k \in {"liq", "tang"} -> {"zero"}

ChoiceVectors ==
    UNION { { [k \in ResultKeys |-> IF k \in S THEN f[k] ELSE "par"] :
                f \in { g \in [S -> {"zero", "high", "extreme", "na"}] :
                          \A k \in S : g[k] \in Deviations(k) } } :
            S \in { T \in SUBSET ResultKeys : Cardinality(T) <= MaxDeviating } }

ArgsOfChoices(c, price) ==
    [fcfeResult |-> ResultOfChoice(c.fcfe, price),
     fcffResult |-> ResultOfChoice(c.fcff, price),
     ddmResult |-> ResultOfChoice(c.ddm, price),
     relativeResults |-> [peValuation |-> ResultOfChoice(c.pe, price),
                          evEbitdaValuation |-> ResultOfChoice(c.ev, price)],
     assetResults |-> [bookValue |-> ResultOfChoice(c.book, price),
                       tangibleBookValue |-> ResultOfChoice(c.tang, price),
                       liquidationValue |-> ResultOfChoice(c.liq, price)],
     earningsResults |-> [capitalizedEarnings |-> ResultOfChoice(c.cap, price)]]

\* every classification: each threshold of lines 379-417 from both sides, the
\* lower value being the threshold itself; and a record without an industry
Classifications ==
    { [BaseRecord EXCEPT !.industry = i,
                         !.marketData.marketCap = c,
                         !.keyRatios.leverageRatios.debtToEquity = de,
                         !.marketData.beta = b,
                         !.dividendInfo = di] :
        i \in {AssetHeavyText, BaseRecord.industry},
        c \in {Num(LargeCapThreshold), Num(LargeCapThreshold + 1)},
        de \in {Num(2), Frac(5, 2)},
        b \in {Frac(13, 10), Num(2)},
        di \in {NoDividendInfo, DividendInfo(Frac(3, 100)), DividendInfo(Frac(4, 100))} }
    \cup { [BaseRecord EXCEPT !.industry = Undefined] }

WeightArgs ==
    { ArgsOfChoices(c, BaseRecord.marketData.currentPrice) : c \in ChoiceVectors }

InitWeights ==
    /\ pc = "ready"
    /\ data \in Classifications
    /\ normalizedData = convertToUSD(data)
    /\ args \in WeightArgs
    /\ ret = None

CallCalculateDynamicWeights ==
    /\ pc = "ready"
    /\ pc' = "done"
    /\ ret' = IF WeightsThrow(data) THEN TypeError
              ELSE [kind |-> "weights",
                    weights |-> calculateDynamicWeights(data, args.fcfeResult,
                                    args.fcffResult, args.ddmResult,
                                    args.relativeResults, args.assetResults,
                                    args.earningsResults)]
    /\ UNCHANGED <<data, normalizedData, args>>

NextWeights == CallCalculateDynamicWeights

SpecWeights == InitWeights /\ [][NextWeights]_vars

---------------------------------------------------------------------------
(* getRecommendation on its own                                            *)

\* upside is drawn from -MaxDownside..MaxUpside and marginOfSafety from
\* 0..MaxMargin, in whole percents, and each may be NaN
MaxDownside == 12
MaxUpside == 22
MaxMargin == 17

InitRecommend ==
    /\ pc = "ready"
    /\ data = BaseRecord
    /\ normalizedData = convertToUSD(data)
    /\ args \in [upside : {Num(u) : u \in (-MaxDownside)..MaxUpside} \cup {NaN},
                 marginOfSafety : {Num(m) : m \in 0..MaxMargin} \cup {NaN}]
    /\ ret = None

CallGetRecommendation ==
    /\ pc = "ready"
    /\ pc' = "done"
    /\ ret' = [kind |-> "recommendation",
               recommendation |-> getRecommendation(args.upside, args.marginOfSafety)]
    /\ UNCHANGED <<data, normalizedData, args>>

NextRecommend == CallGetRecommendation

SpecRecommend == InitRecommend /\ [][NextRecommend]_vars

---------------------------------------------------------------------------
(* The constructor on its own: new ValuationCalculator(companyData) for    *)
(* records of every currency and every shape of exchange rate.  args is    *)
(* the record as the caller passed it, data is this.data, an alias of the  *)
(* caller's object, as the constructor leaves it.                          *)

FlatRate(rate) == [kind |-> "number", rate |-> rate, dkkToUsd |-> NaN, eurToUsd |-> NaN]

EurRate == [kind |-> "table", rate |-> NaN, dkkToUsd |-> NaN, eurToUsd |-> Frac(109, 100)]

BothRates ==
    [kind |-> "table", rate |-> NaN, dkkToUsd |-> Frac(1, 2), eurToUsd |-> Frac(109, 100)]

ExchangeRates ==
    {NoExchangeRate, FlatRate(Frac(109, 100)), FlatRate(Zero), DkkRate, EurRate, BothRates}

ConvertChoices ==
    [currency : {"", "USD", "DKK", "EUR"},
     exchangeRate : ExchangeRates,
     dividendInfo : {NoDividendInfo, DividendInfo(Frac(4, 100))},
     dividend : {NaN, Zero, Num(2)},
     years : 1..MaxYears]

ConvertRecordOf(c) ==
    [BaseRecord EXCEPT
        !.currency = c.currency,
        !.exchangeRate = c.exchangeRate,
        !.dividendInfo = c.dividendInfo,
        !.financialHistory =
            [y \in (2025 - c.years)..2024 |-> YearRecord(Num(4), c.dividend, TRUE)]]

ConvertRecords == {ConvertRecordOf(c) : c \in ConvertChoices}

InitConvert ==
    /\ pc = "new"
    /\ args \in ConvertRecords
    /\ data = None
    /\ normalizedData = None
    /\ ret = None

\* new ValuationCalculator(companyData), lines 5-11
Construct ==
    /\ pc = "new"
    /\ pc' = "ready"
    /\ normalizedData' = convertToUSD(args)
    /\ data' = InputAfterConvert(args, convertToUSD(args))
    /\ UNCHANGED <<args, ret>>

NextConvert == Construct

SpecConvert == InitConvert /\ [][NextConvert]_vars

---------------------------------------------------------------------------
(* calculateConfidence on its own, on lists of values of bounded length    *)

\* the longest list of valuations
MaxValues == 3

\* the values a valuation takes
ConfidenceValues == {Num(v) : v \in {-3, -2, 0, 2, 3, 4, 7}} \cup {NaN, Infinity}

ValuationLists ==
    UNION {[1..n -> [method : {"m"}, value : ConfidenceValues, weight : {Zero}]] :
               n \in 0..MaxValues}

InitConfidence ==
    /\ pc = "ready"
    /\ data = BaseRecord
    /\ normalizedData = convertToUSD(data)
    /\ args \in [valuations : ValuationLists]
    /\ ret = None

CallCalculateConfidence ==
    /\ pc = "ready"
    /\ pc' = "done"
    /\ ret' = [kind |-> "confidence",
               confidence |-> calculateConfidence(args.valuations)]
    /\ UNCHANGED <<data, normalizedData, args>>

NextConfidence == CallCalculateConfidence

SpecConfidence == InitConfidence /\ [][NextConfidence]_vars

---------------------------------------------------------------------------
(* POST /api/valuation/batch (app.js 76-120) over a data directory of      *)
(* three files                                                             *)

\* the longest tickers array of a request
MaxTickers == 3

\* an element of the tickers array: a string, or a value that is not one
Str(text) == [isString |-> TRUE, text |-> text]
NotAString == [isString |-> FALSE, text |-> ""]

\* String.prototype.toLowerCase and toUpperCase on the names in use
ToLowerCase(text) ==
    CASE text \in {"good", "GOOD", "Good"} -> "good"
      [] text \in {"noind", "NOIND"} -> "noind"
      [] text \in {"bad", "BAD"} -> "bad"
      [] text \in {"none", "NONE"} -> "none"

ToUpperCase(text) ==
    CASE text \in {"good", "GOOD", "Good"} -> "GOOD"
      [] text \in {"noind", "NOIND"} -> "NOIND"
      [] text \in {"bad", "BAD"} -> "BAD"
      [] text \in {"none", "NONE"} -> "NONE"

\* the files of the data directory by name without .json: a record, a record
\* without an industry, and a file that is not JSON
DataDir ==
    [name \in {"good", "noind", "bad"} |->
        CASE name = "good" -> [json |-> TRUE, content |-> BaseRecord]
          [] name = "noind" ->
                 [json |-> TRUE, content |-> [BaseRecord EXCEPT !.industry = Undefined]]
          [] name = "bad" -> [json |-> FALSE, content |-> None]]

\* the body of the for loop, app.js 87-111, for a string ticker: the entry
\* pushed by the try block or by its catch block
BatchEntry(text) ==
    LET name == ToLowerCase(text)
    IN  IF name \notin DOMAIN DataDir
        THEN [ticker |-> ToUpperCase(text), success |-> FALSE,
              error |-> "Company data not found", data |-> None]
        ELSE IF ~DataDir[name].json
        THEN [ticker |-> ToUpperCase(text), success |-> FALSE,
              error |-> "SyntaxError", data |-> None]
        ELSE LET companyData == DataDir[name].content
                 valuation == calculateIntrinsicValue(companyData,
                                                      convertToUSD(companyData))
             IN  IF valuation.kind = "TypeError"
                 THEN [ticker |-> ToUpperCase(text), success |-> FALSE,
                       error |-> "TypeError", data |-> None]
                 ELSE [ticker |-> ToUpperCase(text), success |-> TRUE,
                       error |-> "", data |-> valuation]

\* the for loop of app.js 86-112 from element i on.  For an element that is
\* not a string, ticker.toLowerCase() throws in the try block and
\* ticker.toUpperCase() throws again in its catch block, which ends the loop
\* in the outer catch of line 115.
RECURSIVE BatchLoop(_, _, _)
BatchLoop(tickers, i, results) ==
    IF i > Len(tickers) THEN [status |-> 200, error |-> "", body |-> results]
    ELSE IF ~tickers[i].isString
    THEN [status |-> 500, error |-> "Failed to process batch valuation", body |-> <<>>]
    ELSE BatchLoop(tickers, i + 1, Append(results, BatchEntry(tickers[i].text)))

\* app.js 76-118
PostBatch(body) ==
    IF ~body.isArray \/ Len(body.tickers) = 0
    THEN [status |-> 400, error |-> "Invalid tickers array", body |-> <<>>]
    ELSE BatchLoop(body.tickers, 1, <<>>)

BatchElements == {Str("good"), Str("Good"), Str("noind"), Str("bad"), Str("NONE"), NotAString}

BatchBodies ==
    {[isArray |-> FALSE, tickers |-> <<>>]}
    \cup UNION {[isArray : {TRUE}, tickers : [1..n -> BatchElements]] : n \in 0..MaxTickers}

InitBatch ==
    /\ pc = "ready"
    /\ data = None
    /\ normalizedData = None
    /\ args \in [body : BatchBodies]
    /\ ret = None

HandlePostBatch ==
    /\ pc = "ready"
    /\ pc' = "done"
    /\ ret' = PostBatch(args.body)
    /\ UNCHANGED <<data, normalizedData, args>>

NextBatch == HandlePostBatch

SpecBatch == InitBatch /\ [][NextBatch]_vars

---------------------------------------------------------------------------
(* The engine on records as they are loaded, valid or not: a loaded record *)
(* is a record with the set of its sections that are missing               *)

\* a loaded record: missing names the sections the file does not have,
\* emptyHistory says that financialHistory is {}
Loaded(record, missing, emptyHistory) ==
    [record |-> record, missing |-> missing, emptyHistory |-> emptyHistory]

\* new ValuationCalculator(companyData).calculateIntrinsicValue() on a loaded
\* record.  Without marketData, calculateFCFE throws on
\* this.data.marketData.currentPrice (lines 84, 130); without financialHistory
\* Object.keys throws (line 75, or line 27 in the constructor); with an empty
\* one latestData is undefined and latestData.freeCashFlow throws (line 80).
\* Nothing in lines 5-11 or 613-667 looks at the price or the share count.
RunEngine(input) ==
    IF input.missing # {} \/ input.emptyHistory THEN TypeError
    ELSE calculateIntrinsicValue(input.record, convertToUSD(input.record))

LoadedRecords ==
    { Loaded([BaseRecord EXCEPT !.marketData.currentPrice = price,
                                !.marketData.sharesOutstanding = shares,
                                !.industry = industry],
             missing, emptyHistory) :
        price \in {Num(-4), Zero, Num(4)},
        shares \in {Num(-1), Zero, One},
        industry \in {AssetHeavyText, BaseRecord.industry},
        missing \in SUBSET {"marketData", "financialHistory"},
        emptyHistory \in BOOLEAN }

InitLoaded ==
    /\ pc = "ready"
    /\ data = None
    /\ normalizedData = None
    /\ args \in [input : LoadedRecords]
    /\ ret = None

AnalyzeLoaded ==
    /\ pc = "ready"
    /\ pc' = "done"
    /\ ret' = RunEngine(args.input)
    /\ UNCHANGED <<data, normalizedData, args>>

NextLoaded == AnalyzeLoaded

SpecLoaded == InitLoaded /\ [][NextLoaded]_vars

---------------------------------------------------------------------------
(* Repeated calls of calculateIntrinsicValue on one calculator while the   *)
(* calendar year advances: args.now is the year new Date().getFullYear()   *)
(* returns, ret the list of the results so far                             *)

\* the number of years projectFutureDividends projects, line 530
ProjectionYears == 10

\* the year of the first call
FirstYear == 2025

\* at most this many calls, and at most this many new years
MaxCalls == 3
MaxNewYears == 2

\* lines 523-549: the projections carry the calendar year they are for; their
\* projectedDividend, yieldOnCost and growthRateUsed are computed from the
\* record alone and are left out
projectFutureDividends(d, now) ==
    IF ~d.dividendInfo.defined THEN <<>>
    ELSE [year \in 1..ProjectionYears |-> [year |-> now + year]]

\* lines 457-522: null without dividendInfo; of the fields of the analysis the
\* one that is not computed from the record alone
calculateDividendAnalysis(d, now) ==
    IF ~d.dividendInfo.defined THEN [kind |-> "null", projectedDividends |-> <<>>]
    ELSE [kind |-> "analysis", projectedDividends |-> projectFutureDividends(d, now)]

\* lines 613-667 with the dividendAnalysis of line 664, in the year now
calculateIntrinsicValueAt(d, nd, now) ==
    IF WeightsThrow(d) \/ DividendAnalysisThrows(d) THEN TypeError
    ELSE calculateIntrinsicValue(d, nd)
             @@ [dividendAnalysis |-> calculateDividendAnalysis(d, now)]

RepeatRecords ==
    { [BaseRecord EXCEPT !.industry = industry,
                         !.dividendInfo = dividendInfo,
                         !.currency = currency,
                         !.exchangeRate = IF currency = "DKK" THEN DkkRate ELSE @] :
        industry \in {AssetHeavyText, BaseRecord.industry},
        dividendInfo \in {NoDividendInfo, DividendInfo(Frac(4, 100))},
        currency \in {"USD", "DKK"} }

InitRepeat ==
    /\ pc = "ready"
    /\ data \in RepeatRecords
    /\ normalizedData = convertToUSD(data)
    /\ args = [now |-> FirstYear]
    /\ ret = <<>>

\* the calendar year changes between two calls
NewYear ==
    /\ args.now < FirstYear + MaxNewYears
    /\ args' = [args EXCEPT !.now = @ + 1]
    /\ UNCHANGED <<pc, data, normalizedData, ret>>

\* calculator.calculateIntrinsicValue(), once more
CalculateAgain ==
    /\ Len(ret) < MaxCalls
    /\ ret' = Append(ret, calculateIntrinsicValueAt(data, normalizedData, args.now))
    /\ UNCHANGED <<pc, data, normalizedData, args>>

NextRepeat == NewYear \/ CalculateAgain

SpecRepeat == InitRepeat /\ [][NextRepeat]_vars

---------------------------------------------------------------------------
(* calculateCAGR on its own, on lists whose last value over the first is   *)
(* an exact power, so that the root of line 352 is exact                   *)

\* the longest list of values
MaxPoints == 4

\* the list of len values from first that grows by the factor each period;
\* with flat set, the values between the first and the last are the first
GrowthList(first, factor, len, flat) ==
    [i \in 1..len |->
        IF flat /\ i > 1 /\ i < len THEN first
        ELSE Mul(first, MathPow(factor, i - 1))]

CagrLists ==
    { GrowthList(first, factor, len, flat) :
        first \in {Num(100), Num(4), Zero, Num(-4), NaN},
        factor \in {Frac(11, 10), Frac(121, 100), One, Frac(1, 2), Num(2), Zero, Num(-1)},
        len \in 0..MaxPoints,
        flat \in BOOLEAN }

InitCagr ==
    /\ pc = "ready"
    /\ data = BaseRecord
    /\ normalizedData = convertToUSD(data)
    /\ args \in [values : CagrLists]
    /\ ret = None

CallCalculateCAGR ==
    /\ pc = "ready"
    /\ pc' = "done"
    /\ ret' = [kind |-> "cagr", value |-> calculateCAGR(args.values)]
    /\ UNCHANGED <<data, normalizedData, args>>

NextCagr == CallCalculateCAGR

SpecCagr == InitCagr /\ [][NextCagr]_vars

---------------------------------------------------------------------------
(* calculateCostOfEquity on its own, on records that differ in beta and in *)
(* the three riskFactors                                                   *)

\* beta = 1.2, riskFreeRate = 0.03, marketRiskPremium = 0.06 and
\* specificRiskPremium = 0.01, as in the test's record
MockCapm ==
    [beta |-> Frac(12, 10), riskFreeRate |-> Frac(3, 100),
     marketRiskPremium |-> Frac(6, 100), specificRiskPremium |-> Frac(1, 100)]

CapmInputs ==
    [beta : {Num(-2), Zero, One, Frac(12, 10), Num(5), Num(100)},
     riskFreeRate : {Zero, Frac(3, 100), Frac(1, 2)},
     marketRiskPremium : {Frac(-1, 100), Frac(6, 100), Frac(1, 2)},
     specificRiskPremium : {Zero, Frac(1, 100), Frac(1, 10)}]

\* the base record with the beta and the riskFactors of c
CapmRecordOf(c) ==
    [BaseRecord EXCEPT
        !.marketData.beta = c.beta,
        !.riskFactors = [riskFreeRate |-> c.riskFreeRate,
                         marketRiskPremium |-> c.marketRiskPremium,
                         specificRiskPremium |-> c.specificRiskPremium]]

InitCapm ==
    /\ pc = "ready"
    /\ args \in CapmInputs
    /\ data = CapmRecordOf(args)
    /\ normalizedData = convertToUSD(data)
    /\ ret = None

CallCalculateCostOfEquity ==
    /\ pc = "ready"
    /\ pc' = "done"
    /\ ret' = [kind |-> "costOfEquity", value |-> calculateCostOfEquity(data)]
    /\ UNCHANGED <<data, normalizedData, args>>

NextCapm == CallCalculateCostOfEquity

SpecCapm == InitCapm /\ [][NextCapm]_vars

---------------------------------------------------------------------------
(* calculateRiskMetrics on two records: one that differs in its ratios and *)
(* its beta, and a second one derived from it by one change                *)

RiskChoices ==
    [debtToEquity : {Num(2), Frac(5, 2), Num(3), Frac(7, 2), NaN},
     currentRatio : {Frac(9, 10), One, Frac(11, 10), Frac(12, 10), NaN},
     interestCoverage : {Num(4), Num(5), Num(7), Num(10), NaN},
     beta : {One, Frac(3, 2), Num(2)},
     peRatio : {Num(25), Num(30)}]

\* the base record with the ratios and the beta of c; NaN is a ratio that
\* the record does not hold
RiskRecordOf(c) ==
    [BaseRecord EXCEPT
        !.marketData.beta = c.beta,
        !.keyRatios.leverageRatios.debtToEquity = c.debtToEquity,
        !.keyRatios.leverageRatios.interestCoverage = c.interestCoverage,
        !.keyRatios.liquidityRatios.currentRatio = c.currentRatio,
        !.keyRatios.valuationRatios.peRatio = c.peRatio]

\* the changes that make the second record
RiskChanges ==
    {"none", "price", "history", "assumptions", "currency", "beta", "peRatio"}

Changed(d, change) ==
    IF change = "price"
        THEN [d EXCEPT !.marketData.currentPrice = Num(200),
                       !.marketData.marketCap = Num(400),
                       !.marketData.sharesOutstanding = Num(2)]
    ELSE IF change = "history"
        THEN [d EXCEPT !.financialHistory =
                           [y \in 2023..2024 |-> YearRecord(Num(-1), NaN, FALSE)]]
    ELSE IF change = "assumptions"
        THEN [d EXCEPT !.assumptions.terminalGrowthRate = One,
                       !.assumptions.taxRate = Zero,
                       !.riskFactors.riskFreeRate = Zero,
                       !.growthMetrics.fcfGrowth5Y = One,
                       !.industry = AssetHeavyText]
    ELSE IF change = "currency"
        THEN [d EXCEPT !.currency = "DKK", !.exchangeRate = DkkRate]
    ELSE IF change = "beta"
        THEN [d EXCEPT !.marketData.beta = Add(@, One)]
    ELSE IF change = "peRatio"
        THEN [d EXCEPT !.keyRatios.valuationRatios.peRatio = Num(10)]
    ELSE d

InitRisk ==
    /\ pc = "ready"
    /\ data \in {RiskRecordOf(c) : c \in RiskChoices}
    /\ normalizedData = convertToUSD(data)
    /\ args \in {[other |-> Changed(data, change)] : change \in RiskChanges}
    /\ ret = None

\* calculateRiskMetrics() on a calculator of each of the two records
CallCalculateRiskMetrics ==
    /\ pc = "ready"
    /\ pc' = "done"
    /\ ret' = [kind |-> "riskMetrics",
               first |-> calculateRiskMetrics(data),
               second |-> calculateRiskMetrics(args.other)]
    /\ UNCHANGED <<data, normalizedData, args>>

NextRisk == CallCalculateRiskMetrics

SpecRisk == InitRisk /\ [][NextRisk]_vars

---------------------------------------------------------------------------
(* calculateIntrinsicValue from line 621 on, given the six method results: *)
(* the weights, the weighted sum, the upside, the margin of safety and the *)
(* recommendation, on the records and the method results of SpecWeights    *)

\* the method results of a choice, each with the name of its method
NamedArgs(a) ==
    [fcfeResult |-> a.fcfeResult @@ [method |-> "FCFE"],
     fcffResult |-> a.fcffResult @@ [method |-> "FCFF"],
     ddmResult |-> a.ddmResult @@ [method |-> "DDM (Gordon Growth)"],
     relativeResults |->
         [peValuation |-> a.relativeResults.peValuation @@ [method |-> "P/E Relative Valuation"],
          evEbitdaValuation |->
              a.relativeResults.evEbitdaValuation @@ [method |-> "EV/EBITDA Relative Valuation"]],
     assetResults |->
         [bookValue |-> a.assetResults.bookValue @@ [method |-> "Book Value"],
          tangibleBookValue |->
              a.assetResults.tangibleBookValue @@ [method |-> "Tangible Book Value"],
          liquidationValue |->
              a.assetResults.liquidationValue @@ [method |-> "Liquidation Value (Conservative)"]],
     earningsResults |->
         [capitalizedEarnings |->
              a.earningsResults.capitalizedEarnings @@ [method |-> "Capitalized Earnings"]]]

InitAggregate ==
    /\ pc = "ready"
    /\ data \in Classifications
    /\ normalizedData = convertToUSD(data)
    /\ args \in {NamedArgs(a) : a \in WeightArgs}
    /\ ret = None

AggregateResults ==
    /\ pc = "ready"
    /\ pc' = "done"
    /\ ret' = IF WeightsThrow(data) THEN TypeError
              ELSE Aggregate(data, args.fcfeResult, args.fcffResult, args.ddmResult,
                             args.relativeResults, args.assetResults,
                             args.earningsResults)
    /\ UNCHANGED <<data, normalizedData, args>>

NextAggregate == AggregateResults

SpecAggregate == InitAggregate /\ [][NextAggregate]_vars

---------------------------------------------------------------------------
(* calculateIntrinsicValue from line 621 on, on method results that agree  *)
(* on one value per share: the weights sum to 1, so the intrinsic value is *)
(* that value, at every upside from -MaxDownside to MaxUpside percent in   *)
(* steps of a quarter percent                                              *)

\* the result of a method that values the share at v
UniformResult(v, price) ==
    [valuePerShare |-> v, upside |-> UpsideOf(v, price), notApplicable |-> FALSE]

UniformArgs(v, price) ==
    LET r == UniformResult(v, price)
    IN  NamedArgs([fcfeResult |-> r, fcffResult |-> r, ddmResult |-> r,
                   relativeResults |-> [peValuation |-> r, evEbitdaValuation |-> r],
                   assetResults |-> [bookValue |-> r, tangibleBookValue |-> r,
                                     liquidationValue |-> r],
                   earningsResults |-> [capitalizedEarnings |-> r]])

\* the test's record, and an asset-heavy record on which the size, leverage,
\* beta and dividend-yield adjustments all fire, at three prices
PricedRecords ==
    { [d EXCEPT !.marketData.currentPrice = price] :
        d \in { BaseRecord,
                [BaseRecord EXCEPT !.industry = AssetHeavyText,
                                   !.marketData.marketCap = Num(LargeCapThreshold + 1),
                                   !.keyRatios.leverageRatios.debtToEquity = Frac(5, 2),
                                   !.marketData.beta = Num(2),
                                   !.dividendInfo = DividendInfo(Frac(4, 100))] },
        price \in {One, Num(4), Num(100)} }

InitUniform ==
    /\ pc = "ready"
    /\ data \in PricedRecords
    /\ normalizedData = convertToUSD(data)
    /\ args \in { UniformArgs(Mul(data.marketData.currentPrice, Frac(400 + k, 400)),
                               data.marketData.currentPrice) :
                     k \in (-4 * MaxDownside)..(4 * MaxUpside) }
    /\ ret = None

AggregateUniform ==
    /\ pc = "ready"
    /\ pc' = "done"
    /\ ret' = Aggregate(data, args.fcfeResult, args.fcffResult, args.ddmResult,
                        args.relativeResults, args.assetResults, args.earningsResults)
    /\ UNCHANGED <<data, normalizedData, args>>

NextUniform == AggregateUniform

SpecUniform == InitUniform /\ [][NextUniform]_vars

---------------------------------------------------------------------------
(* CompanyDataBuilder (companyBuilder.js 4-99): the builder holds the      *)
(* template it loaded; createCompanyFile spreads the template and the      *)
(* company data into a new object, which copies the top-level fields only, *)
(* so a nested object that the company data does not supply is the         *)
(* template's own object, and what calculateDerivedMetrics writes into it   *)
(* is written into the template.  data is the builder, args what was       *)
(* loaded at construction, ret the file last written.                      *)

\* one year of financialHistory, of the fields calculateDerivedMetrics reads
BuilderYear(revenue, grossProfit, operatingIncome, netIncome, equity, assets, debt, eps, fcf) ==
    [revenue |-> Num(revenue), grossProfit |-> Num(grossProfit),
     operatingIncome |-> Num(operatingIncome), netIncome |-> Num(netIncome),
     shareholdersEquity |-> Num(equity), totalAssets |-> Num(assets),
     totalDebt |-> Num(debt), eps |-> Num(eps), freeCashFlow |-> Num(fcf)]

PlaceholderYear == BuilderYear(0, 0, 0, 0, 0, 0, 0, 0, 0)
EarlierYear == BuilderYear(10, 5, 2, 1, 4, 8, 2, 1, 1)
LaterYear == BuilderYear(20, 12, 6, 4, 8, 16, 2, 2, 3)

\* keyRatios and growthMetrics with every value at 0
PlaceholderRatios ==
    [profitabilityRatios |-> [grossMargin |-> Zero, operatingMargin |-> Zero,
                              netMargin |-> Zero, roe |-> Zero, roa |-> Zero],
     leverageRatios |-> [debtToEquity |-> Zero, debtToAssets |-> Zero]]

PlaceholderGrowth ==
    [revenueGrowth5Y |-> Zero, epsGrowth5Y |-> Zero, fcfGrowth5Y |-> Zero]

\* data/template.json is not among the sources: a template of the structure
\* of data/nvo.json, whose year holds placeholders or sample figures
Templates ==
    { [ticker |-> "", lastUpdated |-> "", financialHistory |-> history,
       keyRatios |-> PlaceholderRatios, growthMetrics |-> PlaceholderGrowth] :
        history \in { [y \in {2024} |-> PlaceholderYear],
                      [y \in {2024} |-> EarlierYear] } }

\* lines 33-59, for one year
DeriveYear(keyRatios, yearData) ==
    [profitabilityRatios |->
         [grossMargin |->
              IF Truthy(yearData.revenue) /\ Truthy(yearData.grossProfit)
              THEN Div(yearData.grossProfit, yearData.revenue)
              ELSE keyRatios.profitabilityRatios.grossMargin,
          operatingMargin |->
              IF Truthy(yearData.revenue) /\ Truthy(yearData.operatingIncome)
              THEN Div(yearData.operatingIncome, yearData.revenue)
              ELSE keyRatios.profitabilityRatios.operatingMargin,
          netMargin |->
              IF Truthy(yearData.revenue) /\ Truthy(yearData.netIncome)
              THEN Div(yearData.netIncome, yearData.revenue)
              ELSE keyRatios.profitabilityRatios.netMargin,
          roe |->
              IF Truthy(yearData.netIncome) /\ Truthy(yearData.shareholdersEquity)
              THEN Div(yearData.netIncome, yearData.shareholdersEquity)
              ELSE keyRatios.profitabilityRatios.roe,
          roa |->
              IF Truthy(yearData.netIncome) /\ Truthy(yearData.totalAssets)
              THEN Div(yearData.netIncome, yearData.totalAssets)
              ELSE keyRatios.profitabilityRatios.roa],
     leverageRatios |->
         [debtToEquity |->
              IF Truthy(yearData.totalDebt) /\ Truthy(yearData.shareholdersEquity)
              THEN Div(yearData.totalDebt, yearData.shareholdersEquity)
              ELSE keyRatios.leverageRatios.debtToEquity,
          debtToAssets |->
              IF Truthy(yearData.totalDebt) /\ Truthy(yearData.totalAssets)
              THEN Div(yearData.totalDebt, yearData.totalAssets)
              ELSE keyRatios.leverageRatios.debtToAssets]]

\* years.forEach of lines 32-60, from the year at position i on
RECURSIVE DeriveYears(_, _, _, _)
DeriveYears(keyRatios, history, years, i) ==
    IF i > Len(years) THEN keyRatios
    ELSE DeriveYears(DeriveYear(keyRatios, history[years[i]]), history, years, i + 1)

\* lines 63-86
DeriveGrowth(growthMetrics, history, years) ==
    IF Len(years) >= 2
    THEN LET oldestData == history[years[1]]
             latestData == history[years[Len(years)]]
             numYears == Len(years) - 1
         IN  [revenueGrowth5Y |->
                  IF Truthy(oldestData.revenue) /\ Truthy(latestData.revenue)
                  THEN Sub(MathRoot(Div(latestData.revenue, oldestData.revenue),
                                    numYears), One)
                  ELSE growthMetrics.revenueGrowth5Y,
              epsGrowth5Y |->
                  IF Truthy(oldestData.eps) /\ Truthy(latestData.eps)
                  THEN Sub(MathRoot(Div(latestData.eps, oldestData.eps), numYears), One)
                  ELSE growthMetrics.epsGrowth5Y,
              fcfGrowth5Y |->
                  IF Truthy(oldestData.freeCashFlow) /\ Truthy(latestData.freeCashFlow)
                  THEN Sub(MathRoot(Div(latestData.freeCashFlow,
                                        oldestData.freeCashFlow), numYears), One)
                  ELSE growthMetrics.fcfGrowth5Y]
    ELSE growthMetrics

\* calculateDerivedMetrics (lines 29-87): the keyRatios and the growthMetrics
\* objects of data as it leaves them
calculateDerivedMetrics(d) ==
    LET years == SortedYears(DOMAIN d.financialHistory)
    IN  [keyRatios |-> DeriveYears(d.keyRatios, d.financialHistory, years, 1),
         growthMetrics |-> DeriveGrowth(d.growthMetrics, d.financialHistory, years)]

\* the company data of a call: the nested objects it supplies are its own,
\* the others are left to the template; fetchFromAPI (lines 90-99) returns
\* the template itself
CompanyData ==
    { [supplies |-> S,
       financialHistory |-> history,
       keyRatios |-> PlaceholderRatios,
       growthMetrics |-> PlaceholderGrowth] :
        S \in SUBSET {"financialHistory", "keyRatios", "growthMetrics"},
        history \in { [y \in {2024} |-> PlaceholderYear],
                      [y \in {2024} |-> EarlierYear],
                      [y \in 2023..2024 |-> IF y = 2023 THEN EarlierYear ELSE LaterYear] } }

\* { ...this.template, ...companyData } (line 15): a field of the result is
\* the company data's where it supplies one, else the template's
Spread(template, companyData, field) ==
    IF field \in companyData.supplies THEN companyData[field] ELSE template[field]

\* the template's nested object after the call: written to if it is the
\* object that data holds
TemplateAfter(template, companyData, field, written) ==
    IF field \in companyData.supplies THEN template[field] ELSE written

\* new CompanyDataBuilder() (lines 5-12)
InitBuilder ==
    /\ pc = "ready"
    /\ \E template \in Templates :
           /\ data = [template |-> template]
           /\ args = [loaded |-> template]
    /\ normalizedData = None
    /\ ret = None

\* createCompanyFile(ticker, companyData), lines 14-27
CreateCompanyFile ==
    /\ pc = "ready"
    /\ \E ticker \in {"good", "Good"}, today \in {"2025-07-25", "2025-07-26"},
          companyData \in CompanyData :
           LET merged == [financialHistory |->
                              Spread(data.template, companyData, "financialHistory"),
                          keyRatios |-> Spread(data.template, companyData, "keyRatios"),
                          growthMetrics |->
                              Spread(data.template, companyData, "growthMetrics")]
               derived == calculateDerivedMetrics(merged)
           IN  /\ ret' = [kind |-> "file",
                          path |-> ToLowerCase(ticker),
                          content |-> [ticker |-> ToUpperCase(ticker),
                                       lastUpdated |-> today,
                                       financialHistory |-> merged.financialHistory,
                                       keyRatios |-> derived.keyRatios,
                                       growthMetrics |-> derived.growthMetrics]]
               /\ data' = [template |->
                              [data.template EXCEPT
                                  !.keyRatios = TemplateAfter(data.template, companyData,
                                                    "keyRatios", derived.keyRatios),
                                  !.growthMetrics = TemplateAfter(data.template, companyData,
                                                    "growthMetrics", derived.growthMetrics)]]
    /\ UNCHANGED <<pc, normalizedData, args>>

\* builder.fetchFromAPI(ticker).then(data => builder.createCompanyFile(ticker,
\* data)) (lines 206-207): the company data is the template object itself
CreateFromTemplate ==
    /\ pc = "ready"
    /\ \E ticker \in {"good", "Good"}, today \in {"2025-07-25", "2025-07-26"} :
           LET derived == calculateDerivedMetrics(data.template)
           IN  /\ ret' = [kind |-> "file",
                          path |-> ToLowerCase(ticker),
                          content |-> [ticker |-> ToUpperCase(ticker),
                                       lastUpdated |-> today,
                                       financialHistory |-> data.template.financialHistory,
                                       keyRatios |-> derived.keyRatios,
                                       growthMetrics |-> derived.growthMetrics]]
               /\ data' = [template |->
                              [data.template EXCEPT
                                  !.keyRatios = derived.keyRatios,
                                  !.growthMetrics = derived.growthMetrics]]
    /\ UNCHANGED <<pc, normalizedData, args>>

NextBuilder == CreateCompanyFile \/ CreateFromTemplate

SpecBuilder == InitBuilder /\ [][NextBuilder]_vars

---------------------------------------------------------------------------
(* Claims about calculateDynamicWeights, under SpecWeights                 *)

WeightsReturned == pc = "done" /\ ret.kind = "weights"

\* C1: the weights calculateDynamicWeights returns sum to 1, for every
\* classification of the record and every combination of method results (so
\* in particular whenever at least one method is applicable): the total that
\* the renormalisation divides by is never 0.
C1_WeightsSumToOne == WeightsReturned => TotalWeight(ret.weights) = One

\* C1's case: a call in which the quality checks zeroed the FCFE and the DDM
\* weight, and the weights returned sum to 1
C1_Witness ==
    /\ WeightsReturned
    /\ args.fcfeResult.notApplicable
    /\ ret.weights.fcfe = Zero
    /\ IsExtreme(args.ddmResult)
    /\ ret.weights.ddm = Zero
    /\ TotalWeight(ret.weights) = One

\* C2: every weight calculateDynamicWeights returns is non-negative.
C2_WeightsNonNegative ==
    WeightsReturned => \A k \in Methods : Le(Zero, ret.weights[k])

\* the result, among the arguments of the call, that a weight belongs to
ResultOf(k) ==
    CASE k = "fcfe" -> args.fcfeResult
      [] k = "fcff" -> args.fcffResult
      [] k = "ddm" -> args.ddmResult
      [] k = "peRelative" -> args.relativeResults.peValuation
      [] k = "evEbitda" -> args.relativeResults.evEbitdaValuation
      [] k = "bookValue" -> args.assetResults.bookValue
      [] k = "capitalizedEarnings" -> args.earningsResults.capitalizedEarnings

\* C3: the quality dampening treats the seven weighted methods alike: a method
\* whose |upside| is above 150, or whose value per share is <= 0, or which is
\* flagged not applicable, ends with weight 0, and any other method whose
\* |upside| is above 100 ends with half of its weight before the quality step
\* (here: of its share of the total).
C3_UniformDampening ==
    WeightsReturned =>
        \A k \in Methods :
            LET r == ResultOf(k)
                excluded == \/ IsExtreme(r)
                            \/ Le(r.valuePerShare, Zero)
                            \/ r.notApplicable
                raw == RawWeights(data, args.fcfeResult, args.fcffResult, args.ddmResult,
                                  args.relativeResults, args.assetResults)
            IN  /\ excluded => ret.weights[k] = Zero
                /\ (IsHigh(r) /\ ~excluded) => raw[k] = Half(AdjustedWeights(data)[k])

---------------------------------------------------------------------------
(* Claims about getRecommendation, under SpecRecommend                     *)

Recommended == pc = "done" /\ ret.kind = "recommendation"

\* a number above a whole number, as the rules read it: false for NaN
Above(a, i) == a.d = 1 /\ a.n > i

---------------------------------------------------------------------------
(* Claims about calculateIntrinsicValue, under Spec                        *)

Called == pc = "done"
Returned == pc = "done" /\ ret.kind = "result"

\* the method results of the call, as calculateIntrinsicValue computes them
\* whether or not it goes on to return
FcfeResult == calculateFCFE(data, normalizedData)
FcffResult == calculateFCFF(data, normalizedData)
DdmResult == calculateDDM(data, normalizedData)
RelativeResults == calculateRelativeValuation(data, normalizedData)
AssetResults == calculateAssetBasedValuation(data, normalizedData)
EarningsResults == calculateEarningsBasedValuation(data, normalizedData)

\* the seven weighted method results, in the order of the valuations
WeightedResults ==
    << FcfeResult, FcffResult, DdmResult, RelativeResults.peValuation,
       RelativeResults.evEbitdaValuation, AssetResults.bookValue,
       EarningsResults.capitalizedEarnings >>

\* a method result that is to be excluded: flagged not applicable, a value
\* per share that is <= 0, or an |upside| above 150
Excluded(r) ==
    \/ "notApplicable" \in DOMAIN r /\ r.notApplicable
    \/ Le(r.valuePerShare, Zero)
    \/ Gt(MathAbs(r.upside), Num(150))

AllExcluded ==
    LET results == WeightedResults
    IN  \A i \in 1..Len(results) : Excluded(results[i])

\* C4: a call of calculateIntrinsicValue in which every one of the seven
\* weighted methods is excluded fails: it does not return a result.
C4_AllExcludedFails == (Called /\ AllExcluded) => ret.kind # "result"

\* the latest-year free cash flow that calculateFCFE reads
LatestFreeCashFlow == LatestData(normalizedData).freeCashFlow

\* C7: when the latest-year free cash flow is <= 0 and the call returns, the
\* FCFE result is flagged not applicable with value per share 0 and a reason,
\* the FCFE weight is 0, the FCFE term of the weighted sum is 0 (neither
\* negative nor NaN), and the six other methods are in the result with the
\* values they compute.
C7_NegativeFcfExcluded ==
    (Returned /\ Le(LatestFreeCashFlow, Zero)) =>
        LET fcfe == ret.valuationBreakdown.fcfe
            term == ret.weightedValuations[1]
            others == WeightedResults
        IN  /\ fcfe.notApplicable
            /\ fcfe.valuePerShare = Zero
            /\ fcfe.reason # ""
            /\ term.method = "FCFE"
            /\ term.weight = Zero
            /\ Mul(term.value, term.weight) = Zero
            /\ Len(ret.weightedValuations) = 7
            /\ \A i \in 2..7 :
                   ret.weightedValuations[i].value = others[i].valuePerShare
            /\ ret.valuationBreakdown.fcff = others[2]
            /\ ret.valuationBreakdown.ddm = others[3]

\* C7's case: a returned call on a record with a negative latest-year free
\* cash flow, FCFE out at weight 0, and the FCFF term carrying weight
C7_Witness ==
    /\ Returned
    /\ Lt(LatestFreeCashFlow, Zero)
    /\ ret.valuationBreakdown.fcfe.notApplicable
    /\ ret.weightedValuations[1].weight = Zero
    /\ Gt(ret.weightedValuations[4].weight, Zero)
    /\ IsFinite(ret.intrinsicValue)

\* the preconditions of the dividend discount model fail
DdmPreconditionFails ==
    \/ ~Truthy(LatestData(normalizedData).dividend)
    \/ Le(calculateCostOfEquity(data), data.assumptions.dividendGrowthRate)

\* C8: once calculateDDM has run, its result is flagged not applicable with a
\* reason whenever the latest-year dividend is zero or absent or the required
\* return is <= the dividend growth rate, and its value per share is never
\* infinite or NaN.
C8_DdmFlagsNotApplicable ==
    Called =>
        /\ DdmPreconditionFails => (DdmResult.notApplicable /\ DdmResult.reason # "")
        /\ IsFinite(DdmResult.valuePerShare)

\* C9: once the two cash-flow models have run, a cost of equity that is <= the
\* terminal growth rate gives a not-applicable FCFE result, and a WACC that is
\* <= the terminal growth rate gives a not-applicable FCFF result.
C9_TerminalValueGuarded ==
    Called =>
        /\ Le(calculateCostOfEquity(data), data.assumptions.terminalGrowthRate)
               => FcfeResult.notApplicable
        /\ Le(calculateWACC(data, normalizedData), data.assumptions.terminalGrowthRate)
               => FcffResult.notApplicable

\* the eleven method results of a returned call
AllResults ==
    LET b == ret.valuationBreakdown
    IN  << b.fcfe, b.fcff, b.ddm, b.relative.peValuation, b.relative.pbValuation,
           b.relative.evEbitdaValuation, b.assetBased.bookValue,
           b.assetBased.tangibleBookValue, b.assetBased.liquidationValue,
           b.earningsBased.capitalizedEarnings, b.earningsBased.earningsPowerValue >>

\* a result that is not flagged not applicable
Applicable(r) == ~("notApplicable" \in DOMAIN r /\ r.notApplicable)

\* value per share over price, less one, as a percentage
PercentOver(valuePerShare, price) ==
    LET ratio == Div(valuePerShare, price)
    IN  Mul(Num(100), Sub(ratio, One))

\* C10: in a returned call, the upside of each of the eleven method results
\* that is applicable is (valuePerShare / currentPrice - 1) * 100, from the
\* value per share of that same result and the current price of the record.
C10_UpsideIdentity ==
    Returned =>
        LET results == AllResults
        IN  \A i \in 1..Len(results) :
                Applicable(results[i]) =>
                    results[i].upside =
                        PercentOver(results[i].valuePerShare, data.marketData.currentPrice)

\* C10's case: a returned call on a converted record in which all eleven
\* results are applicable with finite upsides, not all of them equal
C10_Witness ==
    /\ Returned
    /\ data.currency = "DKK"
    /\ \A i \in 1..Len(AllResults) :
           Applicable(AllResults[i]) /\ IsFinite(AllResults[i].upside)
    /\ AllResults[1].upside # AllResults[7].upside

---------------------------------------------------------------------------
(* Claims about convertToUSD, under SpecConvert                            *)

Constructed == pc = "ready"

\* the to-USD rate a record supplies for its own currency: the flat number,
\* or the entry of the table under the key of the currency pair; NaN if none
RateFor(d) ==
    IF d.exchangeRate.kind = "number" THEN d.exchangeRate.rate
    ELSE IF d.exchangeRate.kind = "table"
    THEN CASE d.currency = "DKK" -> d.exchangeRate.dkkToUsd
           [] d.currency = "EUR" -> d.exchangeRate.eurToUsd
           [] OTHER -> NaN
    ELSE NaN

ForeignCurrency(d) == d.currency \notin {"", "USD"}

\* every money amount of every year of out is the amount of in times rate,
\* and every other field of the years is the same
YearsScaled(in, out, rate) ==
    /\ DOMAIN out.financialHistory = DOMAIN in.financialHistory
    /\ \A y \in DOMAIN in.financialHistory :
           \A f \in DOMAIN in.financialHistory[y] :
               out.financialHistory[y][f] =
                   IF f \in MonetaryFields \cup PerShareFields
                   THEN Mul(in.financialHistory[y][f], rate)
                   ELSE in.financialHistory[y][f]

\* the ratios, percentages and share counts of a record are the same
RestUnchanged(in, out) ==
    /\ out.marketData = in.marketData
    /\ out.keyRatios = in.keyRatios
    /\ out.riskFactors = in.riskFactors
    /\ out.growthMetrics = in.growthMetrics
    /\ out.assumptions = in.assumptions
    /\ out.industryBenchmarks = in.industryBenchmarks

\* C11: for a record in a currency other than USD whose exchange rate is a
\* non-zero flat number or a table with the key of its currency, the
\* converted record has every money amount and every per-share amount of
\* every year multiplied by that rate, and every other field unchanged.
C11_ConvertsEveryCurrency ==
    (Constructed /\ ForeignCurrency(args) /\ IsFinite(RateFor(args))
                 /\ RateFor(args) # Zero) =>
        /\ YearsScaled(args, normalizedData, RateFor(args))
        /\ RestUnchanged(args, normalizedData)

\* C12: for a record in a currency other than USD whose exchange-rate table
\* lacks the key of its currency, the converted record has every amount at its
\* input value and records the rate 1 it was converted at.
C12_MissingKeyFallsBackToOne ==
    (Constructed /\ ForeignCurrency(args) /\ args.exchangeRate.kind = "table"
                 /\ IsNaN(RateFor(args))) =>
        /\ YearsScaled(args, normalizedData, One)
        /\ normalizedData.conversionRate = One

---------------------------------------------------------------------------
(* Claims about calculateConfidence, under SpecConfidence                  *)

Classified == pc = "done" /\ ret.kind = "confidence"

\* the sum of the whole numbers v[1..n], and of their squares
RECURSIVE IntSum(_, _)
IntSum(v, n) == IF n = 0 THEN 0 ELSE IntSum(v, n - 1) + v[n]
RECURSIVE IntSumSq(_, _)
IntSumSq(v, n) == IF n = 0 THEN 0 ELSE IntSumSq(v, n - 1) + v[n] * v[n]

\* the class of the coefficient of variation of count whole numbers with the
\* given sum and sum of squares.  The population variance is
\* (count * sumSq - sum^2) / count^2 and the mean sum / count, so for sum > 0
\* the coefficient is below c exactly when count * sumSq - sum^2 < c^2 * sum^2,
\* with c^2 = 1/25 and 4/25.  For sum < 0 the coefficient is not above 0; for
\* sum = 0 it is infinite or NaN.
ClassOfCV(count, sum, sumSq) ==
    IF count = 0 \/ sum = 0 THEN "Low"
    ELSE IF sum < 0 THEN "High"
    ELSE IF 25 * (count * sumSq - sum * sum) < sum * sum THEN "High"
    ELSE IF 25 * (count * sumSq - sum * sum) < 4 * sum * sum THEN "Medium"
    ELSE "Low"

---------------------------------------------------------------------------
(* Claims about the asset floor, under SpecWeights                         *)

\* lines 437-438 set the book-value weight to 0
BookValueZeroed ==
    \/ Le(args.assetResults.bookValue.valuePerShare, Zero)
    \/ Le(args.assetResults.liquidationValue.valuePerShare, Zero)

\* the weights of the call after the quality step, before the floor
WeightsAfterQuality ==
    QualityFilter(QualityHalve(AdjustedWeights(data), args.fcfeResult, args.fcffResult,
                               args.ddmResult, args.relativeResults),
                  args.fcfeResult, args.fcffResult, args.ddmResult, args.assetResults)

\* C15: when the quality step has zeroed the book-value weight, an asset-heavy
\* industry with a tangible book value per share above 0 gets the floor 0.05
\* in its place before the renormalisation, so that the weight returned is
\* 0.05 over the total with the floor and is above 0; in any other industry
\* the weight returned is 0.
C15_AssetFloorRestored ==
    (WeightsReturned /\ BookValueZeroed) =>
        LET after == WeightsAfterQuality
            floor == Frac(5, 100)
        IN  /\ after.bookValue = Zero
            /\ (/\ IsAssetHeavy(data.industry.text)
                /\ Gt(args.assetResults.tangibleBookValue.valuePerShare, Zero))
                   => /\ ret.weights.bookValue = Div(floor, Add(TotalWeight(after), floor))
                      /\ Gt(ret.weights.bookValue, Zero)
            /\ ~IsAssetHeavy(data.industry.text) => ret.weights.bookValue = Zero

\* C15's case: an asset-heavy record whose book value per share is 0 and whose
\* tangible book value per share is above 0, with a book-value weight above 0
C15_Witness ==
    /\ WeightsReturned
    /\ IsAssetHeavy(data.industry.text)
    /\ args.assetResults.bookValue.valuePerShare = Zero
    /\ Gt(args.assetResults.tangibleBookValue.valuePerShare, Zero)
    /\ Gt(ret.weights.bookValue, Zero)

---------------------------------------------------------------------------
(* Claims about the batch request, under SpecBatch                         *)

Responded == pc = "done"

\* the request carries a tickers array that is not empty
BatchRequested == args.body.isArray /\ Len(args.body.tickers) > 0

\* the ticker at position i has a file that parses and a calculation that
\* returns
Computable(i) ==
    /\ args.body.tickers[i].isString
    /\ ToLowerCase(args.body.tickers[i].text) = "good"

\* C16: the response to a batch request holds one entry per requested ticker,
\* in the order of the request; the entry of a ticker whose data is missing,
\* does not parse, or whose calculation throws has success = false, the entry
\* of any other ticker has success = true whatever the other tickers are, and
\* the response as a whole is not an error response.
C16_BatchIsolatesFailures ==
    (Responded /\ BatchRequested) =>
        /\ ret.status = 200
        /\ Len(ret.body) = Len(args.body.tickers)
        /\ \A i \in 1..Len(args.body.tickers) :
               /\ args.body.tickers[i].isString =>
                      ret.body[i].ticker = ToUpperCase(args.body.tickers[i].text)
               /\ ret.body[i].success = Computable(i)

---------------------------------------------------------------------------
(* Claims about invalid records, under SpecLoaded                          *)

Analyzed == pc = "done"

\* a loaded record that misses a required section, or whose price or share
\* count is not above 0
InvalidRecord(input) ==
    \/ input.missing # {}
    \/ input.emptyHistory
    \/ ~Gt(input.record.marketData.currentPrice, Zero)
    \/ ~Gt(input.record.marketData.sharesOutstanding, Zero)

\* C17: the engine returns no result for a record that misses marketData or
\* financialHistory, has an empty financialHistory, or has a current price or
\* a number of shares outstanding that is <= 0.
C17_InvalidRecordRejected ==
    (Analyzed /\ InvalidRecord(args.input)) => ret.kind # "result"

---------------------------------------------------------------------------
(* Claims about the end-to-end call, under Spec                            *)

\* a record with a positive latest free cash flow, a dividend, and a cost of
\* equity above the dividend growth rate and the terminal growth rate
SoundRecord ==
    /\ Gt(LatestFreeCashFlow, Zero)
    /\ Gt(LatestData(normalizedData).dividend, Zero)
    /\ Gt(calculateCostOfEquity(data), data.assumptions.dividendGrowthRate)
    /\ Gt(calculateCostOfEquity(data), data.assumptions.terminalGrowthRate)

\* C18: on a record with a positive free cash flow, a dividend and a cost of
\* equity above both growth rates, with or without an industry and a
\* dividendInfo, calculateIntrinsicValue returns a result that echoes the
\* ticker, has an intrinsic value above 0, a recommendation among Strong Buy,
\* Buy, Hold and Sell, and a confidence among High, Medium and Low.
C18_SoundRecordValued ==
    (Called /\ SoundRecord) =>
        /\ ret.kind = "result"
        /\ ret.ticker = data.ticker
        /\ Gt(ret.intrinsicValue, Zero)
        /\ ret.recommendation \in {"Strong Buy", "Buy", "Hold", "Sell"}
        /\ ret.confidence \in {"High", "Medium", "Low"}

---------------------------------------------------------------------------
(* Claims about repeated calls, under SpecRepeat                           *)

\* C19: any two calls of calculateIntrinsicValue on the same record, whenever
\* they are made, return results that are equal in every field.
C19_Deterministic ==
    \A i \in 1..Len(ret) : \A j \in 1..Len(ret) : ret[i] = ret[j]

---------------------------------------------------------------------------
(* Claims about calculateCAGR, under SpecCagr                              *)

CagrReturned == pc = "done" /\ ret.kind = "cagr"

\* r is the compound growth rate that takes first to last in the given
\* number of periods: (1 + r)^periods = last / first, with 1 + r >= 0
GrowsAt(r, first, last, periods) ==
    /\ Le(Zero, Add(One, r))
    /\ MathPow(Add(One, r), periods) = Div(last, first)

\* the list has a first value above 0 and a last value that is not below 0
Growing(values) ==
    /\ Len(values) >= 2
    /\ Gt(values[1], Zero)
    /\ Le(Zero, values[Len(values)])

TwoValues == << Num(100), Num(121) >>
FourValues == << Num(100), Num(110), Num(121), Frac(1331, 10) >>

\* C20 as stated: calculateCAGR returns (end/begin)^(1/n) - 1 over the n
\* periods of the list, 0.10 over [100, 121] taken as 2 periods, and 0.10 over
\* [100, 110, 121, 133.1].
C20_CagrOfTwoValuesIsTenPercent ==
    CagrReturned =>
        /\ Growing(args.values) =>
               \E n \in 1..MaxPoints :
                   GrowsAt(ret.value, args.values[1], args.values[Len(args.values)], n)
        /\ args.values = TwoValues => ret.value = Frac(10, 100)
        /\ args.values = FourValues => ret.value = Frac(10, 100)

\* C20, amended: over a list of k >= 2 values calculateCAGR returns
\* (last/first)^(1/(k-1)) - 1, the periods being the k - 1 steps between the
\* values; so 0.21 over [100, 121] (1 period) and 0.10 over
\* [100, 110, 121, 133.1] (3 periods); over a list of fewer than 2 values it
\* returns 0.
C20_CagrOverStepsBetweenValues ==
    CagrReturned =>
        /\ Growing(args.values) =>
               GrowsAt(ret.value, args.values[1], args.values[Len(args.values)],
                       Len(args.values) - 1)
        /\ Len(args.values) < 2 => ret.value = Zero
        /\ args.values = TwoValues => ret.value = Frac(21, 100)
        /\ args.values = FourValues => ret.value = Frac(10, 100)

\* C20's case: the list [100, 121] was given and 0.21 returned
C20_Witness ==
    /\ CagrReturned
    /\ args.values = TwoValues
    /\ ret.value = Frac(21, 100)


\* C21: calculateCAGR returns exactly 0, without error, for every sequence
\* holding a single value (a number above, at or below zero, or NaN).
C21_SingleValueIsZero ==
    (CagrReturned /\ Len(args.values) = 1) => ret.value = Zero

\* C21's case: the list [100] of the test was given and 0 returned
C21_Witness ==
    /\ CagrReturned
    /\ args.values = << Num(100) >>
    /\ ret.value = Zero


---------------------------------------------------------------------------
(* Claims about calculateCostOfEquity, under SpecCapm                      *)

CostOfEquityReturned == pc = "done" /\ ret.kind = "costOfEquity"

\* C22: calculateCostOfEquity returns riskFreeRate + beta * marketRiskPremium
\* + specificRiskPremium with no cap or smoothing for any beta: what it
\* returns above riskFreeRate + specificRiskPremium is beta times
\* marketRiskPremium, also for a beta of -2, 5 or 100; for beta = 1.2,
\* riskFree = 0.03, marketRiskPremium = 0.06 and specificRisk = 0.01 the
\* result is 0.112.
C22_CapmIdentity ==
    CostOfEquityReturned =>
        /\ Sub(Sub(ret.value, data.riskFactors.riskFreeRate),
               data.riskFactors.specificRiskPremium)
               = Mul(data.marketData.beta, data.riskFactors.marketRiskPremium)
        /\ args = MockCapm => ret.value = Frac(112, 1000)

\* C22's case: the cost of equity of a record with a beta of 100 was returned
C22_Witness ==
    /\ CostOfEquityReturned
    /\ data.marketData.beta = Num(100)
    /\ data.riskFactors.marketRiskPremium = Frac(6, 100)
    /\ Gt(ret.value, Num(6))


---------------------------------------------------------------------------
(* Claims about the risk metrics, under SpecRisk                           *)

RiskReturned == pc = "done" /\ ret.kind = "riskMetrics"

\* the points of a ratio n/d against an upper and a lower threshold, on whole
\* numbers: 2 beyond the outer threshold, 1 beyond the inner one, else 0; a
\* ratio that is not a number compares false and gives 0
PointsAbove(x, outer, inner) ==
    IF x.n > outer * x.d THEN 2 ELSE IF x.n > inner * x.d THEN 1 ELSE 0

\* below outerTenths / 10 gives 2, below innerTenths / 10 gives 1
PointsBelow(x, outerTenths, innerTenths) ==
    IF 10 * x.n < outerTenths * x.d THEN 2
    ELSE IF 10 * x.n < innerTenths * x.d THEN 1 ELSE 0

FinancialScore(ratios) ==
    PointsAbove(ratios.leverageRatios.debtToEquity, 3, 2)
        + PointsBelow(ratios.liquidityRatios.currentRatio, 10, 12)
        + PointsBelow(ratios.leverageRatios.interestCoverage, 50, 100)

\* C23: assessFinancialRisk sums three independent contributions of 0, 1 or 2
\* points (debt/equity > 3 gives 2, > 2 gives 1; current ratio < 1 gives 2,
\* < 1.2 gives 1; interest coverage < 5 gives 2, < 10 gives 1) and returns
\* High exactly when the total is >= 4, Medium exactly when it is 2 or 3, and
\* Low exactly when it is 0 or 1.
C23_FinancialRiskBands ==
    RiskReturned =>
        LET score == FinancialScore(data.keyRatios)
            riskLevel == ret.first.financial.riskLevel
        IN  /\ riskLevel \in {"High", "Medium", "Low"}
            /\ riskLevel = "High" <=> score >= 4
            /\ riskLevel = "Medium" <=> score \in {2, 3}
            /\ riskLevel = "Low" <=> score \in {0, 1}

\* C23's case: a record with debt/equity 3.5 (2 points), current ratio 1.1
\* (1 point) and interest coverage 7 (1 point) was assessed High on a total
\* of exactly 4
C23_Witness ==
    /\ RiskReturned
    /\ data.keyRatios.leverageRatios.debtToEquity = Frac(7, 2)
    /\ data.keyRatios.liquidityRatios.currentRatio = Frac(11, 10)
    /\ data.keyRatios.leverageRatios.interestCoverage = Num(7)
    /\ ret.first.financial.riskLevel = "High"

\* the two records agree on keyRatios and on marketData.beta
SameRatiosAndBeta ==
    /\ data.keyRatios = args.other.keyRatios
    /\ data.marketData.beta = args.other.marketData.beta

\* C24: the risk metrics are independent of the intrinsic-value computation:
\* any two records that agree on keyRatios and on marketData.beta receive
\* identical riskMetrics, whatever their financial history, price,
\* assumptions, industry or currency.
C24_RiskIndependentOfValuation ==
    (RiskReturned /\ SameRatiosAndBeta) => ret.first = ret.second

\* C24's case: two records with the same ratios and beta and different
\* prices were assessed
C24_Witness ==
    /\ RiskReturned
    /\ SameRatiosAndBeta
    /\ data.marketData.currentPrice # args.other.marketData.currentPrice
    /\ ret.first = ret.second


---------------------------------------------------------------------------
(* Further claims about calculateDynamicWeights, under SpecWeights         *)

\* the arguments of the call with the liquidation value per share of the
\* other sign: 0 where it was above 0, twice the price where it was not
WithOtherLiquidation(a) ==
    [a EXCEPT !.assetResults.liquidationValue =
        IF Gt(@.valuePerShare, Zero)
        THEN ResultOfChoice("zero", data.marketData.currentPrice)
        ELSE ResultOfChoice("par", data.marketData.currentPrice)]

\* the weights of a second call on the same record with the arguments a
WeightsFor(a) ==
    calculateDynamicWeights(data, a.fcfeResult, a.fcffResult, a.ddmResult,
                            a.relativeResults, a.assetResults, a.earningsResults)

\* C25: the weight given to book value never depends on the liquidation value:
\* for two runs that differ only in the liquidation value per share (positive
\* in one, <= 0 in the other) with a positive book value per share,
\* calculateDynamicWeights returns the same book-value weight.
C25_BookWeightIgnoresLiquidation ==
    (WeightsReturned /\ Gt(args.assetResults.bookValue.valuePerShare, Zero)) =>
        ret.weights.bookValue = WeightsFor(WithOtherLiquidation(args)).bookValue


\* the base vector and the industry-override vector of the claim, in
\* hundredths
BasePercent ==
    [fcfe |-> 25, fcff |-> 25, ddm |-> 15, peRelative |-> 15, evEbitda |-> 10,
     bookValue |-> 5, capitalizedEarnings |-> 5]

OverridePercent ==
    [fcfe |-> 20, fcff |-> 20, ddm |-> 10, peRelative |-> 20, evEbitda |-> 15,
     bookValue |-> 10, capitalizedEarnings |-> 5]

PercentTotal(p) ==
    p.fcfe + p.fcff + p.ddm + p.peRelative + p.evEbitda + p.bookValue
        + p.capitalizedEarnings

\* the adjustments of lines 391-421 that fire on the record
SizeFires == Gt(data.marketData.marketCap, Num(LargeCapThreshold))
DebtFires == Gt(data.keyRatios.leverageRatios.debtToEquity, Num(2))
BetaFires == Gt(data.marketData.beta, Frac(13, 10))
DividendFires == Gt(DividendYieldOf(data), Frac(3, 100))

\* C26: before the quality step the weight vector always sums to 1: the base
\* vector (0.25, 0.25, 0.15, 0.15, 0.10, 0.05, 0.05) and the industry-override
\* vector (0.20, 0.20, 0.10, 0.20, 0.15, 0.10, 0.05) each sum to 1, and each
\* of the size, leverage, beta and dividend-yield adjustments moves weight
\* between methods with deltas that add up to zero, for every subset of
\* adjustments that fires.
C26_WeightsSumToOneBeforeQuality ==
    WeightsReturned =>
        LET start == IndustryAdjust(BaseWeights, data.industry.text)
            claimed == IF IsAssetHeavy(data.industry.text) THEN OverridePercent
                       ELSE BasePercent
        IN  /\ PercentTotal(BasePercent) = 100
            /\ PercentTotal(OverridePercent) = 100
            /\ \A k \in Methods : start[k] = Frac(claimed[k], 100)
            /\ TotalWeight(SizeAdjust(start, data.marketData.marketCap))
                   = TotalWeight(start)
            /\ TotalWeight(DebtAdjust(start, data.keyRatios.leverageRatios.debtToEquity))
                   = TotalWeight(start)
            /\ TotalWeight(BetaAdjust(start, data.marketData.beta))
                   = TotalWeight(start)
            /\ TotalWeight(DividendAdjust(start, DividendYieldOf(data)))
                   = TotalWeight(start)
            /\ TotalWeight(AdjustedWeights(data)) = One

\* C26's case: a call on an asset-heavy record on which all four adjustments
\* fire
C26_Witness ==
    /\ WeightsReturned
    /\ IsAssetHeavy(data.industry.text)
    /\ SizeFires /\ DebtFires /\ BetaFires /\ DividendFires
    /\ TotalWeight(AdjustedWeights(data)) = One


---------------------------------------------------------------------------
(* Claims about the aggregation of calculateIntrinsicValue, under          *)
(* SpecAggregate                                                           *)

\* the weighted valuations that carry a weight other than 0
Weighted == { i \in DOMAIN ret.weightedValuations : ret.weightedValuations[i].weight # Zero }

\* C27: the intrinsic value returned by calculateIntrinsicValue is a convex
\* combination of the method values: it is never below the smallest and never
\* above the largest value per share among the methods that carry a non-zero
\* weight.
C27_IntrinsicValueWithinMethodValues ==
    (Returned /\ Weighted # {}) =>
        /\ \E i \in Weighted : Le(ret.weightedValuations[i].value, ret.intrinsicValue)
        /\ \E i \in Weighted : Le(ret.intrinsicValue, ret.weightedValuations[i].value)


---------------------------------------------------------------------------
(* Further claims about calculateIntrinsicValue, under Spec                *)

\* C28: the marginOfSafety reported by calculateIntrinsicValue always lies
\* between 0 and 100 percent, and it is 0 whenever the intrinsic value is not
\* above the current price (including when the intrinsic value is negative).
C28_MarginOfSafetyBounded ==
    Returned =>
        /\ Le(Zero, ret.marginOfSafety)
        /\ Le(ret.marginOfSafety, Num(100))
        /\ Le(ret.intrinsicValue, ret.currentPrice) => ret.marginOfSafety = Zero


---------------------------------------------------------------------------
(* Claims about the recommendation of calculateIntrinsicValue, under       *)
(* SpecUniform                                                             *)

\* C29: because calculateIntrinsicValue derives both upside and
\* marginOfSafety from the same intrinsic value and price, the
\* margin-of-safety test never blocks Strong Buy: for every positive price
\* and intrinsic value, the recommendation is Strong Buy exactly when
\* upside > 20 (an upside above 20 percent always implies a margin of safety
\* above 15 percent).
C29_StrongBuyExactlyAboveTwenty ==
    (Returned /\ Gt(ret.currentPrice, Zero) /\ Gt(ret.intrinsicValue, Zero)) =>
        /\ ret.recommendation = "Strong Buy" <=> Gt(ret.upside, Num(20))
        /\ Gt(ret.upside, Num(20)) => Gt(ret.marginOfSafety, Num(15))

\* C29's case: an intrinsic value 20.25 percent above the price, a margin of
\* safety below 17 percent, and Strong Buy
C29_Witness ==
    /\ Returned
    /\ Gt(ret.intrinsicValue, Zero)
    /\ ret.upside = Frac(81, 4)
    /\ Lt(ret.marginOfSafety, Num(17))
    /\ ret.recommendation = "Strong Buy"


---------------------------------------------------------------------------
(* Claims about CompanyDataBuilder, under SpecBuilder                      *)

\* C30: after any sequence of createCompanyFile calls on one
\* CompanyDataBuilder, the builder's template is still equal to the template
\* loaded at construction: computing derived metrics for one company never
\* changes the ratios or growth metrics that a later company file starts
\* from.
C30_TemplateUnchanged == data.template = args.loaded

===========================================================================
